---- MODULE Spec2Model ----
(***************************************************************************)
(* Model of the audit orchestrator: atomic persistence (util/io.py), the   *)
(* task agent (codex_agent.py) and the pipeline engine (orchestrator.py).  *)
(***************************************************************************)
EXTENDS Integers, Sequences, FiniteSets, TLC

(***************************************************************************)
(* Bounds of the model.                                                    *)
(***************************************************************************)
\* a file is written in FileChunks pieces; a file shorter than that is partial
FileChunks == 2
\* findings seeded in the run directory
NFindings == 2
\* conditions the LLM emits in one run (derive and narrow together)
MaxConds == 3
\* nested resolve_condition calls the interpreter allows (RecursionError beyond)
RecursionLimit == 2
\* ANCHOR_BFS_BUDGET, scaled down
BfsBudget == 1
\* agent calls of one run that end in an error observation or an exception
MaxFaults == 1

(***************************************************************************)
(* Program constants.                                                      *)
(***************************************************************************)
\* process_findings(..., max_steps=3)
MaxSteps == 3
\* the breadth pass: resolve_condition(condition, finding_file, max_steps=1)
BreadthSteps == 1
\* the depth pass: resolve_condition(..., start_step=1)
DepthStartStep == 1
\* ANCHOR_PLAN_DIVERSITY defaults to on
PlanDiversity == TRUE

VARIABLES
    \* ---- file system and atomic_write (util/io.py) ----
    disk,       \* path -> file (the target files)
    tmp,        \* the temp file of the running atomic_write (or absent)
    awpc,       \* position inside atomic_write
    awpath,     \* argument: target path
    awdata,     \* argument: data
    awpre,      \* the target file as it was when atomic_write was called
    awfault,    \* the step that failed ("" when none)
    awraised,   \* the error raised to the caller ("" when none)
    \* ---- the pipeline engine (orchestrator.py) ----
    pc,         \* position of the control thread in process_findings
    fi,         \* index of the finding of the loops at lines 760 and 800
    ci,         \* index of the condition of the loop at line 773
    topconds,   \* finding -> ids of its top-level conditions (all_data)
    conds,      \* id -> Condition object
    stack,      \* the active resolve_condition calls, innermost last
    plan,       \* the task batch returned by generate_tasks
    workers,    \* per task of the batch: "queued" or what self.agent did
    finished,   \* the tasks of the batch in the order their workers completed
    scored,     \* the list scored of process_findings
    order,      \* sorted(scored, ...)[: bfs_budget], as condition ids
    di,         \* index into order of the depth pass
    faults,     \* agent calls that failed so far
    abortCause, \* why process_findings raised ("" while it has not)
    \* ---- one call of CodexAgent.run (codex_agent.py) ----
    agpc,       \* position inside run
    agtask,     \* argument: the task string, by its parts
    agparsed,   \* what _parse_task returned
    agdisp,     \* what self.codex.exec did
    agres,      \* what run returned, or the error it raised
    \* ---- one invocation of main (run_pipeline.py) ----
    rpc,        \* position inside main
    runno,      \* which invocation of main this is
    manifest,   \* the lines of the manifest file, stripped
    rootGiven,  \* --repo-root names a tree other than the tool's own
    rundir,     \* run_path exists
    mfiles,     \* manifest_files
    world,      \* what discovery finds for a file (the agent is deterministic)
    initial,    \* the list initial
    si,         \* index of the loop at line 198
    rfiles,     \* finding id -> the file finding_<id>.json of run_path
    counts,     \* run_data["counts"]
    runjson,    \* run.json of run_path
    exitcode,   \* the exit code of the process (-1 while it runs)
    prevnames,  \* the finding file names the previous invocation left
    \* ---- Orchestrator._with_retries (orchestrator.py) ----
    llmTry,     \* attempts of the LLM call at llmSite that raised
    llmSite,    \* the LLM call those attempts belong to
    memo,       \* LLM_MEMO_DIR and the save_cache calls running on it
    \* ---- CodexClient.exec (codex_dispatch.py) ----
    dxpc,       \* position inside exec
    dxreq,      \* the arguments of the call, and whether its cache file parsed
    dxretries,  \* self.retries
    dxcache,    \* cache key -> the cache file
    dxattempt,  \* attempt
    dxlaunched, \* child processes this call has started
    dxchild,    \* the child process and the pipes it was given
    dxcmd,      \* cmd
    dxtmp,      \* the codex_last_ temp file exists
    dxres,      \* what exec returned or raised
    dxcalls,    \* exec calls made so far
    dxdone      \* cache key -> the result of the last call that ran a child to success

ioVars == <<disk, tmp, awpc, awpath, awdata, awpre, awfault, awraised>>

orchVars == <<pc, fi, ci, topconds, conds, stack, plan, workers, finished,
              scored, order, di, faults, abortCause>>

agVars == <<agpc, agtask, agparsed, agdisp, agres>>

runVars == <<rpc, runno, manifest, rootGiven, rundir, mfiles, world, initial, si,
             rfiles, counts, runjson, exitcode, prevnames>>

llmVars == <<llmTry, llmSite, memo>>

dxVars == <<dxpc, dxreq, dxretries, dxcache, dxattempt, dxlaunched, dxchild,
            dxcmd, dxtmp, dxres, dxcalls, dxdone>>

\* the variables of the components added to the engine, the agent and the
\* file layer
extVars == <<runVars, llmVars, dxVars>>

vars == <<disk, tmp, awpc, awpath, awdata, awpre, awfault, awraised,
          pc, fi, ci, topconds, conds, stack, plan, workers, finished, scored,
          order, di, faults, abortCause,
          agpc, agtask, agparsed, agdisp, agres,
          rpc, runno, manifest, rootGiven, rundir, mfiles, world, initial, si,
          rfiles, counts, runjson, exitcode, prevnames,
          llmTry, llmSite, memo,
          dxpc, dxreq, dxretries, dxcache, dxattempt, dxlaunched, dxchild,
          dxcmd, dxtmp, dxres, dxcalls, dxdone>>

(***************************************************************************)
(* Files.  The bytes of a file are a document and the number of chunks of  *)
(* it that are on disk; a file with fewer than FileChunks chunks is a      *)
(* truncated document.                                                     *)
(***************************************************************************)
EmptyDoc == [tasks_log |-> <<>>, conditions |-> <<>>, verdict |-> "none"]

Absent == [exists |-> FALSE, data |-> EmptyDoc, len |-> 0]

FileOf(d) == [exists |-> TRUE, data |-> d, len |-> FileChunks]

IsComplete(f) == f.exists /\ f.len = FileChunks

(***************************************************************************)
(* atomic_write(path, data), one action per statement that touches the     *)
(* file system.  Every such statement may fail with an OSError.            *)
(***************************************************************************)
\* the call itself: bind the arguments (history: remember the target)
atomic_write_call(p, d) ==
    /\ awpc \in {"idle", "returned", "raised"}
    /\ awpc' = "mkstemp"
    /\ awpath' = p
    /\ awdata' = d
    /\ awpre' = disk[p]
    /\ awfault' = ""
    /\ awraised' = ""
    /\ UNCHANGED <<disk, tmp>>

\* io.py:11-12  mkdir + mkstemp: an empty temp file in the target's directory;
\* a failure here is outside the try block and propagates directly
atomic_write_mkstemp ==
    /\ awpc = "mkstemp"
    /\ tmp' = [exists |-> TRUE, data |-> awdata, len |-> 0]
    /\ awpc' = "write"
    /\ UNCHANGED <<disk, awpath, awdata, awpre, awfault, awraised>>
    /\ UNCHANGED orchVars
    /\ UNCHANGED agVars
    /\ UNCHANGED extVars

\* io.py:11-12 raising
atomic_write_mkstemp_fails ==
    /\ awpc = "mkstemp"
    /\ awpc' = "raised"
    /\ awfault' = "mkstemp"
    /\ awraised' = "mkstemp"
    /\ UNCHANGED <<disk, tmp, awpath, awdata, awpre>>
    /\ UNCHANGED orchVars
    /\ UNCHANGED agVars
    /\ UNCHANGED extVars

\* a with block that is left after the first chunk
WriteComplete_Early(len) == len >= 1

\* io.py:14-15  the with block is left when all of data was written and flushed
WriteComplete(len) == len = FileChunks

\* io.py:14-15  fh.write(data) and the close of the with block: the data
\* reaches the temp file chunk by chunk
atomic_write_write ==
    /\ awpc = "write"
    /\ tmp.len < FileChunks
    /\ tmp' = [tmp EXCEPT !.len = @ + 1]
    /\ awpc' = IF WriteComplete(tmp.len + 1) THEN "replace" ELSE "write"
    /\ UNCHANGED <<disk, awpath, awdata, awpre, awfault, awraised>>
    /\ UNCHANGED orchVars
    /\ UNCHANGED agVars
    /\ UNCHANGED extVars

\* io.py:14-15 raising (disk full, ...): control goes to the except block
atomic_write_write_fails ==
    /\ awpc = "write"
    /\ awpc' = "except"
    /\ awfault' = "write"
    /\ UNCHANGED <<disk, tmp, awpath, awdata, awpre, awraised>>
    /\ UNCHANGED orchVars
    /\ UNCHANGED agVars
    /\ UNCHANGED extVars

\* what os.replace(tmp_path, path) leaves on disk: the target is the temp
\* file, the temp name is gone
ReplaceEffect(p) == [disk EXCEPT ![p] = tmp]

\* io.py:16  os.replace
atomic_write_replace ==
    /\ awpc = "replace"
    /\ disk' = ReplaceEffect(awpath)
    /\ tmp' = Absent
    /\ awpc' = "returned"
    /\ UNCHANGED <<awpath, awdata, awpre, awfault, awraised>>
    /\ UNCHANGED orchVars
    /\ UNCHANGED agVars
    /\ UNCHANGED extVars

\* io.py:16  os.replace raising
atomic_write_replace_fails ==
    /\ awpc = "replace"
    /\ awpc' = "except"
    /\ awfault' = "replace"
    /\ UNCHANGED <<disk, tmp, awpath, awdata, awpre, awraised>>
    /\ UNCHANGED orchVars
    /\ UNCHANGED agVars
    /\ UNCHANGED extVars

\* a handler that re-raises without removing the temp file
ExceptTmp_NoUnlink == tmp

\* the temp file after the except block: os.unlink(tmp_path)
ExceptTmp == Absent

\* io.py:17-19  except Exception: os.unlink(tmp_path); raise
atomic_write_except ==
    /\ awpc = "except"
    /\ tmp' = ExceptTmp
    /\ awraised' = awfault
    /\ awpc' = "raised"
    /\ UNCHANGED <<disk, awpath, awdata, awpre, awfault>>
    /\ UNCHANGED orchVars
    /\ UNCHANGED agVars
    /\ UNCHANGED extVars

\* atomic_write(path, data) as one step of its caller, when it returns: the
\* target holds data (io.py:8-16); when it raises the disk is as before
atomic_write(p, d) == [disk EXCEPT ![p] = FileOf(d)]

\* the frame of atomic_write is popped: its arguments are gone
atomic_write_done ==
    /\ awpc' = "idle"
    /\ awpath' = 1
    /\ awdata' = EmptyDoc
    /\ awpre' = Absent
    /\ awfault' = ""
    /\ awraised' = ""
    /\ UNCHANGED <<disk, tmp>>

(***************************************************************************)
(* Helpers on sequences.                                                   *)
(***************************************************************************)
Range(s) == {s[i] : i \in DOMAIN s}

RECURSIVE Pick(_, _, _)
\* the subsequence of s at the indices of keep that are >= i
Pick(s, keep, i) ==
    IF i > Len(s) THEN <<>>
    ELSE (IF i \in keep THEN <<s[i]>> ELSE <<>>) \o Pick(s, keep, i + 1)

Min(a, b) == IF a < b THEN a ELSE b

(***************************************************************************)
(* Task texts.  A text is the sequence of its whitespace-separated words.  *)
(***************************************************************************)
TSearch == <<"search", "x">>
TSearchCap == <<"Search", "y">>
TCallgraph == <<"callgraph", "z">>
TBlank == <<>>
\* the goal and the "original" of the synthetic task (orchestrator.py:436-441)
TSyntheticGoal == <<"callgraph", "from", "any", "discovered", "sink", "symbol">>
TSyntheticOriginal == <<"callgraph", "shortest-path">>

\* str.lower() on the words that occur
Lower(w) == IF w = "Search" THEN "search" ELSE w

\* _verb(s): (s.split(None, 1)[0] or "").lower(); split() of a blank string is
\* the empty list, whose [0] raises IndexError
VerbRaises(s) == Len(s) = 0

_verb(s) == Lower(s[1])

\* hashlib.sha1(goal.encode()).hexdigest(): the first byte of the digest of
\* "codex:exec:p.py::<text>" for the texts above
input_sha1(goal) ==
    CASE goal = TSearch -> 117
      [] goal = TSearchCap -> 119
      [] goal = TCallgraph -> 185
      [] goal = TSyntheticGoal -> 45
      [] OTHER -> 255

\* a task object of generate_tasks; task is the goal after "codex:exec:<path>::"
Task(text) == [task |-> text, mode |-> "exec", original |-> text]

SyntheticTask ==
    [task |-> TSyntheticGoal, mode |-> "exec", original |-> TSyntheticOriginal]

\* what the planner's emit_tasks call may return in data["tasks"]
PlannerReplies ==
    { <<[mode |-> "exec", task |-> TSearch]>>,
      <<[mode |-> "read", task |-> TCallgraph], [mode |-> "exec", task |-> TSearch]>>,
      <<[mode |-> "exec", task |-> TBlank]>> }

(***************************************************************************)
(* generate_tasks: the deterministic post-processing of the planner reply. *)
(***************************************************************************)
\* orchestrator.py:388-407  keep mode == "exec", deduplicate by (mode, text)
KeptTasks(reply) ==
    LET keep == {i \in DOMAIN reply :
                   /\ reply[i].mode = "exec"
                   /\ \A j \in 1..(i - 1) :
                        ~(reply[j].mode = "exec" /\ reply[j].task = reply[i].task)}
        kept == Pick(reply, keep, 1)
    IN [i \in DOMAIN kept |-> Task(kept[i].task)]

\* orchestrator.py:409-413  drop the tasks whose verb is last_verb, if any is left
DropLastVerb(tasks, prev_verb) ==
    IF PlanDiversity /\ prev_verb # ""
    THEN LET alt == SelectSeq(tasks, LAMBDA t : _verb(t.original) # prev_verb)
         IN IF alt # <<>> THEN alt ELSE tasks
    ELSE tasks

\* orchestrator.py:415-420  prefer verbs not used yet while fewer than 3 were used
DropUsedVerbs(tasks, used_verbs) ==
    IF PlanDiversity /\ Cardinality(used_verbs) < 3
    THEN LET fresh == SelectSeq(tasks, LAMBDA t : _verb(t.original) \notin used_verbs)
         IN IF fresh # <<>> THEN fresh ELSE tasks
    ELSE tasks

\* the first three tasks, whatever their verbs
OnePerVerb_CapOnly(tasks) == SubSeq(tasks, 1, Min(3, Len(tasks)))

\* orchestrator.py:422-430  one task per verb (the first), at most 3
OnePerVerb(tasks) ==
    LET keep == {i \in DOMAIN tasks :
                   \A j \in 1..(i - 1) : _verb(tasks[j].original) # _verb(tasks[i].original)}
        filtered == Pick(tasks, keep, 1)
    IN SubSeq(filtered, 1, Min(3, Len(filtered)))

\* the tasks as they are after the cap
ForceReachability_Never(tasks) == tasks

\* orchestrator.py:432-443  force a callgraph/dataflow task
ForceReachability(tasks) ==
    IF \E i \in DOMAIN tasks : _verb(tasks[i].original) \in {"callgraph", "dataflow"}
    THEN tasks
    ELSE Append(tasks, SyntheticTask)

\* generate_tasks raises IndexError when _verb meets a blank text
generate_tasks_raises(reply) ==
    \E i \in DOMAIN reply : reply[i].mode = "exec" /\ VerbRaises(reply[i].task)

generate_tasks(condition, reply) ==
    ForceReachability(
        OnePerVerb(
            DropUsedVerbs(
                DropLastVerb(KeptTasks(reply), condition.last_verb),
                condition.used_verbs)))

(***************************************************************************)
(* Observations and conditions.                                            *)
(***************************************************************************)
\* summary.startswith("error:"), a summary being the sequence of its words
StartsWithError(summary) == Len(summary) > 0 /\ summary[1] = "error:"

\* what self.agent(goal) does in a worker: a successful observation, an error
\* observation, or an exception
AgentOutcomes == {"ok", "err", "raise"}

\* the exec observation the agent returns for a goal
Observation(goal, outcome) ==
    IF outcome = "ok"
    THEN [summary |-> <<"found">>, citations |-> 1, about |-> goal]
    ELSE [summary |-> <<"error:", "timeout">>, citations |-> 0, about |-> goal]

\* Condition(description=...): orchestrator.py:38-53
NewCondition ==
    [state |-> "unknown", rationale |-> "", evidence |-> <<>>,
     subconditions |-> <<>>, last_verb |-> "", used_verbs |-> {}]

RECURSIVE to_dict(_)
\* Condition.to_dict: orchestrator.py:55-67
to_dict(id) ==
    [state |-> conds[id].state,
     rationale |-> conds[id].rationale,
     evidence |-> conds[id].evidence,
     subconditions |-> [i \in DOMAIN conds[id].subconditions |->
                          to_dict(conds[id].subconditions[i])]]

\* _latest_success: index of the last observation whose summary is no error, 0 if none
_latest_success(ev_list) ==
    LET ok == {i \in DOMAIN ev_list : ~StartsWithError(ev_list[i].summary)}
    IN IF ok = {} THEN 0 ELSE CHOOSE i \in ok : \A j \in ok : j <= i

\* _score_condition: 0 without a successful observation; else 2 for its
\* citations, 2 more when a cited region holds a sink keyword, 1 more when the
\* text names user control
Scores(condition) ==
    IF _latest_success(condition.evidence) = 0
    THEN {0}
    ELSE {2 + sink + kw : sink \in {0, 2}, kw \in {0, 1}}

\* the states the judge tool call can return: the schema's three and, the reply
\* being unchecked JSON, any other string
JudgeReplies == {"satisfied", "failed", "unknown", "maybe"}

\* judge_condition: without evidence "unknown" and no LLM call; else the LLM's
\* answer data.get("state", "unknown"), taken as it is
judge_condition(condition) ==
    IF condition.evidence = <<>> THEN {"unknown"} ELSE JudgeReplies

\* the rationale after judge_condition
JudgedRationale(condition) ==
    IF condition.evidence = <<>> THEN condition.rationale ELSE "r"

(***************************************************************************)
(* _execute_tasks: the batch after all workers completed.                  *)
(***************************************************************************)
\* pairs = [f.result() for f in results]: in submission order
Pairs == [i \in DOMAIN plan |-> [t |-> plan[i], out |-> workers[i]]]

\* a loop over pairs as they are, without the sort
SortedPairs_Unsorted(pairs) == pairs

\* sorted(pairs, key=lambda x: x[3]): stable, ascending by input_sha1
SortedPairs(pairs) ==
    LET n == Len(pairs)
        key(i) == input_sha1(pairs[i].t.task)
        pos(i) == 1 + Cardinality({j \in 1..n :
                        key(j) < key(i) \/ (key(j) = key(i) /\ j < i)})
    IN [k \in 1..n |-> pairs[CHOOSE i \in 1..n : pos(i) = k]]

\* a loop that appends an observation for every task, raised or not
NewEvidence_All(sorted) ==
    [i \in DOMAIN sorted |-> Observation(sorted[i].t.task, sorted[i].out)]

\* orchestrator.py:672-673  the observations appended to condition.evidence
NewEvidence(sorted) ==
    LET ok == {i \in DOMAIN sorted : sorted[i].out # "raise"}
        kept == Pick(sorted, ok, 1)
    IN [i \in DOMAIN kept |-> Observation(kept[i].t.task, kept[i].out)]

\* orchestrator.py:674-694  the entries of task_results
TaskResult(p) ==
    IF p.out # "raise"
    THEN [task |-> p.t.task, mode |-> p.t.mode, original |-> p.t.original,
          output |-> Observation(p.t.task, p.out),
          input_sha1 |-> input_sha1(p.t.task)]
    ELSE [task |-> p.t.task, mode |-> p.t.mode, original |-> p.t.original,
          error |-> "exc",
          input_sha1 |-> input_sha1(p.t.task)]

TaskResults(sorted) == [i \in DOMAIN sorted |-> TaskResult(sorted[i])]

\* orchestrator.py:696-699  verbs of the batch, in the order of pairs
BatchVerbs(pairs) == [i \in DOMAIN pairs |-> _verb(pairs[i].t.original)]

(***************************************************************************)
(* The verdict of a finding: orchestrator.py:805-820.                      *)
(***************************************************************************)
\* a verdict rule that lets any failed condition decide
Verdict_AnyFailed(states) ==
    IF states = {"satisfied"} THEN "TRUE_POSITIVE"
    ELSE IF "failed" \in states THEN "FALSE_POSITIVE"
         ELSE "UNKNOWN"

\* lines 805-820: the if / elif / else over states
Verdict(states) ==
    IF states # {} /\ states = {"satisfied"} THEN "TRUE_POSITIVE"
    ELSE IF states # {} /\ "satisfied" \notin states /\ "failed" \in states
         THEN "FALSE_POSITIVE"
         ELSE "UNKNOWN"

TopStates(f) == {conds[topconds[f][i]].state : i \in DOMAIN topconds[f]}

\* the document process_findings writes at the end for finding f
FinalDoc(f) ==
    [tasks_log |-> disk[f].data.tasks_log,
     conditions |-> [i \in DOMAIN topconds[f] |-> to_dict(topconds[f][i])],
     verdict |-> Verdict(TopStates(f))]

(***************************************************************************)
(* The call stack of resolve_condition.                                    *)
(***************************************************************************)
\* a call whose loop starts at step 0 whatever start_step is
Frame_FromZero(c, f, start_step, max_steps) ==
    [cond |-> c, finding |-> f, step |-> 0, max_steps |-> max_steps,
     at |-> "plan", subs |-> <<>>, si |-> 1]

\* a call of resolve_condition: its arguments and its position in the loop of
\* line 722, which starts at start_step
Frame(c, f, start_step, max_steps) ==
    [cond |-> c, finding |-> f, step |-> start_step, max_steps |-> max_steps,
     at |-> "plan", subs |-> <<>>, si |-> 1]

Top == stack[Len(stack)]

SetTop(fr) == [stack EXCEPT ![Len(stack)] = fr]

\* pc while resolve_condition runs: called from the breadth pass, from the
\* depth pass, or directly with its default arguments
Resolving == pc \in {"breadth_run", "depth_run", "resolve_run"} /\ stack # <<>>

\* a return of the innermost resolve_condition: the caller's loop over subs
\* (line 747) moves on, or control is back in process_findings
ReturnStack ==
    LET rest == SubSeq(stack, 1, Len(stack) - 1)
    IN IF rest = <<>> THEN rest ELSE [rest EXCEPT ![Len(rest)].si = @ + 1]

ReturnPc ==
    IF Len(stack) > 1 THEN pc
    ELSE CASE pc = "breadth_run" -> "score"
           [] pc = "depth_run" -> "depth"
           [] OTHER -> "resolved"

ReturnDi == IF Len(stack) = 1 /\ pc = "depth_run" THEN di + 1 ELSE di

Return ==
    /\ stack' = ReturnStack
    /\ pc' = ReturnPc
    /\ di' = ReturnDi

\* the end of one iteration of the loop at line 722: the next step, or the
\* loop is exhausted and resolve_condition returns
NextStepOrReturn ==
    IF Top.step + 1 < Top.max_steps
    THEN /\ stack' = SetTop([Top EXCEPT !.step = @ + 1, !.at = "plan",
                                        !.subs = <<>>, !.si = 1])
         /\ UNCHANGED <<pc, di>>
    ELSE Return

\* an exception leaving process_findings: its frames and the Condition objects
\* they held are gone, what is on disk stays
Raise(cause) ==
    /\ pc' = "aborted"
    /\ abortCause' = cause
    /\ stack' = <<>>
    /\ conds' = <<>>
    /\ topconds' = [f \in 1..NFindings |-> <<>>]
    /\ plan' = <<>>
    /\ workers' = <<>>
    /\ finished' = <<>>
    /\ scored' = <<>>
    /\ order' = <<>>
    /\ fi' = 1
    /\ ci' = 1
    /\ di' = 1
    /\ UNCHANGED faults

(***************************************************************************)
(* resolve_condition: orchestrator.py:710-755, one action per stage.       *)
(***************************************************************************)
\* PLAN, line 728: generate_tasks on the planner's reply
resolve_plan ==
    /\ Resolving
    /\ Top.at = "plan"
    /\ \E reply \in PlannerReplies :
         \/ /\ generate_tasks_raises(reply)
            /\ Raise("plan")
         \/ /\ ~generate_tasks_raises(reply)
            /\ plan' = generate_tasks(conds[Top.cond], reply)
            /\ workers' = [i \in DOMAIN plan' |-> "queued"]
            /\ stack' = SetTop([Top EXCEPT !.at = "exec"])
            /\ UNCHANGED <<pc, abortCause, di, fi, ci, topconds, conds, scored,
                           order, faults, finished>>
    /\ UNCHANGED ioVars
    /\ UNCHANGED agVars
    /\ UNCHANGED extVars

\* EXEC, lines 651-667: one worker thread runs _run(t) to completion
execute_tasks_run ==
    /\ Resolving
    /\ Top.at = "exec"
    /\ \E i \in DOMAIN workers :
         /\ workers[i] = "queued"
         /\ \E o \in AgentOutcomes :
              /\ o # "ok" => faults < MaxFaults
              /\ workers' = [workers EXCEPT ![i] = o]
              /\ finished' = Append(finished, i)
              /\ faults' = IF o = "ok" THEN faults ELSE faults + 1
    /\ UNCHANGED <<pc, fi, ci, topconds, conds, stack, plan, scored, order, di,
                   abortCause>>
    /\ UNCHANGED ioVars
    /\ UNCHANGED agVars
    /\ UNCHANGED extVars

\* lines 669-699: condition after the batch: evidence in sorted order, verbs
CollectCondition(condition, pairs) ==
    LET verbs == BatchVerbs(pairs)
    IN [condition EXCEPT
          !.evidence = @ \o NewEvidence(SortedPairs(pairs)),
          !.used_verbs = @ \cup Range(verbs),
          !.last_verb = IF verbs = <<>> THEN @ ELSE verbs[Len(verbs)]]

\* the finding with a tasks_log that holds the batch alone
CollectDoc_Fresh(f, c, pairs) ==
    [disk[f].data EXCEPT
       !.tasks_log = <<[condition |-> c,
                        executed |-> TaskResults(SortedPairs(pairs))]>>]

\* lines 647-648 and 701-703: the finding read from the file, with the batch
\* appended to its tasks_log
CollectDoc(f, c, pairs) ==
    [disk[f].data EXCEPT
       !.tasks_log = Append(@, [condition |-> c,
                                executed |-> TaskResults(SortedPairs(pairs))])]

\* lines 663-667: the with block of the ThreadPoolExecutor is left when every
\* worker has finished
AllDone == \A i \in DOMAIN workers : workers[i] # "queued"

\* EXEC, lines 667-708: all futures have a result; evidence, verbs and
\* tasks_log are updated and the finding is persisted with atomic_write; an
\* error of atomic_write leaves _execute_tasks and process_findings
execute_tasks_collect ==
    /\ Resolving
    /\ Top.at = "exec"
    /\ AllDone
    /\ \/ /\ conds' = [conds EXCEPT ![Top.cond] = CollectCondition(@, Pairs)]
          /\ disk' = atomic_write(Top.finding, CollectDoc(Top.finding, Top.cond, Pairs))
          /\ stack' = SetTop([Top EXCEPT !.at = "judge"])
          /\ plan' = <<>>
          /\ workers' = <<>>
          /\ finished' = <<>>
          /\ UNCHANGED <<pc, fi, ci, topconds, scored, order, di, faults,
                         abortCause>>
       \/ /\ Raise("io")
          /\ UNCHANGED disk
    /\ UNCHANGED <<tmp, awpc, awpath, awdata, awpre, awfault, awraised>>
    /\ UNCHANGED agVars
    /\ UNCHANGED extVars

\* lines 667-704, with atomic_write statement by statement: the control thread
\* enters atomic_write
execute_tasks_call ==
    /\ Resolving
    /\ Top.at = "exec"
    /\ AllDone
    /\ conds' = [conds EXCEPT ![Top.cond] = CollectCondition(@, Pairs)]
    /\ atomic_write_call(Top.finding, CollectDoc(Top.finding, Top.cond, Pairs))
    /\ stack' = SetTop([Top EXCEPT !.at = "write"])
    /\ UNCHANGED <<pc, fi, ci, topconds, plan, workers, scored, order, di,
                   faults, abortCause>>
    /\ UNCHANGED agVars
    /\ UNCHANGED extVars
    /\ UNCHANGED finished

\* lines 704-708: atomic_write returned, _execute_tasks returns
execute_tasks_returned ==
    /\ Resolving
    /\ Top.at = "write"
    /\ awpc = "returned"
    /\ stack' = SetTop([Top EXCEPT !.at = "judge"])
    /\ plan' = <<>>
    /\ workers' = <<>>
    /\ finished' = <<>>
    /\ UNCHANGED <<pc, fi, ci, topconds, conds, scored, order, di, faults,
                   abortCause>>
    /\ atomic_write_done
    /\ UNCHANGED agVars
    /\ UNCHANGED extVars

\* line 704: atomic_write raised; nothing on the way up catches it
persistence_error ==
    /\ Resolving
    /\ Top.at = "write"
    /\ awpc = "raised"
    /\ Raise("io")
    /\ atomic_write_done
    /\ UNCHANGED agVars
    /\ UNCHANGED extVars

\* a test that lets only a satisfied condition return
JudgeReturns_OnlySatisfied(state) == state = "satisfied"

\* line 743  if state != "unknown": return
JudgeReturns(state) == state # "unknown"

\* JUDGE, lines 735-744
resolve_judge ==
    /\ Resolving
    /\ Top.at = "judge"
    /\ \E state \in judge_condition(conds[Top.cond]) :
         /\ conds' = [conds EXCEPT
                ![Top.cond].state = state,
                ![Top.cond].rationale = JudgedRationale(conds[Top.cond])]
         /\ IF JudgeReturns(state)
            THEN Return
            ELSE /\ stack' = SetTop([Top EXCEPT !.at = "narrow"])
                 /\ UNCHANGED <<pc, di>>
    /\ UNCHANGED <<fi, ci, topconds, plan, workers, scored, order, faults,
                   abortCause>>
    /\ UNCHANGED ioVars
    /\ UNCHANGED agVars
    /\ UNCHANGED extVars
    /\ UNCHANGED finished

\* NARROW, lines 745-746 and 545-643: the sub-conditions the LLM emits are
\* appended to condition.subconditions
resolve_narrow ==
    /\ Resolving
    /\ Top.at = "narrow"
    /\ \E k \in 0..(MaxConds - Len(conds)) :
         LET ids == [i \in 1..k |-> Len(conds) + i]
         IN /\ conds' = [conds EXCEPT ![Top.cond].subconditions = @ \o ids]
                          \o [i \in 1..k |-> NewCondition]
            /\ IF k = 0
               THEN NextStepOrReturn
               ELSE /\ stack' = SetTop([Top EXCEPT !.at = "subs", !.subs = ids,
                                                   !.si = 1])
                    /\ UNCHANGED <<pc, di>>
    /\ UNCHANGED <<fi, ci, topconds, plan, workers, scored, order, faults,
                   abortCause>>
    /\ UNCHANGED ioVars
    /\ UNCHANGED agVars
    /\ UNCHANGED extVars
    /\ UNCHANGED finished

\* lines 747-748: the recursive call for the next sub-condition; past the
\* interpreter's recursion limit the call raises RecursionError
resolve_sub ==
    /\ Resolving
    /\ Top.at = "subs"
    /\ Top.si <= Len(Top.subs)
    /\ \/ /\ Len(stack) < RecursionLimit
          /\ stack' = Append(stack, Frame(Top.subs[Top.si], Top.finding, 0,
                                          Top.max_steps))
          /\ UNCHANGED <<pc, abortCause, fi, ci, topconds, conds, plan, workers,
                         finished, scored, order, di, faults>>
       \/ /\ Len(stack) >= RecursionLimit
          /\ Raise("recursion")
    /\ UNCHANGED ioVars
    /\ UNCHANGED agVars
    /\ UNCHANGED extVars

\* an aggregation in which one failed sub-condition decides
Aggregate_AnyFailed(old, states) ==
    IF states = {"satisfied"} THEN "satisfied"
    ELSE IF "failed" \in states THEN "failed"
         ELSE old

\* the parent's state after its sub-conditions subs are resolved, lines 749-755
Aggregate(old, states) ==
    IF states = {"satisfied"} THEN "satisfied"
    ELSE IF "failed" \in states /\ "satisfied" \notin states THEN "failed"
         ELSE old

\* a return after the aggregation for satisfied sub-conditions only
AggregateReturns_OnlySatisfied(states) == states = {"satisfied"}

\* lines 750-755: the two cases in which resolve_condition returns at once
AggregateReturns(states) ==
    \/ states = {"satisfied"}
    \/ "failed" \in states /\ "satisfied" \notin states

\* lines 749-755: aggregation of the states of subs
resolve_aggregate ==
    /\ Resolving
    /\ Top.at = "subs"
    /\ Top.si > Len(Top.subs)
    /\ LET states == {conds[Top.subs[i]].state : i \in DOMAIN Top.subs}
           new == Aggregate(conds[Top.cond].state, states)
       IN /\ conds' = [conds EXCEPT ![Top.cond].state = new]
          /\ IF AggregateReturns(states)
             THEN Return
             ELSE NextStepOrReturn
    /\ UNCHANGED <<fi, ci, topconds, plan, workers, scored, order, faults,
                   abortCause>>
    /\ UNCHANGED ioVars
    /\ UNCHANGED agVars
    /\ UNCHANGED extVars
    /\ UNCHANGED finished

(***************************************************************************)
(* process_findings: orchestrator.py:757-826.                              *)
(***************************************************************************)
\* lines 760-772: open the next finding file and derive its conditions
process_findings_derive ==
    /\ pc = "open"
    /\ \E k \in 0..(MaxConds - Len(conds)) :
         /\ conds' = conds \o [i \in 1..k |-> NewCondition]
         /\ topconds' = [topconds EXCEPT ![fi] = [i \in 1..k |-> Len(conds) + i]]
    /\ pc' = "breadth"
    /\ ci' = 1
    /\ UNCHANGED <<fi, stack, plan, workers, scored, order, di, faults,
                   abortCause>>
    /\ UNCHANGED ioVars
    /\ UNCHANGED agVars
    /\ UNCHANGED extVars
    /\ UNCHANGED finished

\* lines 773-777: the breadth pass of the next condition of the finding
process_findings_breadth ==
    /\ pc = "breadth"
    /\ ci <= Len(topconds[fi])
    /\ stack' = <<Frame(topconds[fi][ci], fi, 0, BreadthSteps)>>
    /\ pc' = "breadth_run"
    /\ UNCHANGED <<fi, ci, topconds, conds, plan, workers, scored, order, di,
                   faults, abortCause>>
    /\ UNCHANGED ioVars
    /\ UNCHANGED agVars
    /\ UNCHANGED extVars
    /\ UNCHANGED finished

\* lines 778-783: the condition is scored
process_findings_score ==
    /\ pc = "score"
    /\ \E s \in Scores(conds[topconds[fi][ci]]) :
         scored' = Append(scored, [score |-> s, cond |-> topconds[fi][ci]])
    /\ ci' = ci + 1
    /\ pc' = "breadth"
    /\ UNCHANGED <<fi, topconds, conds, stack, plan, workers, order, di,
                   faults, abortCause>>
    /\ UNCHANGED ioVars
    /\ UNCHANGED agVars
    /\ UNCHANGED extVars
    /\ UNCHANGED finished

\* sorted(scored, key=lambda x: x[0], reverse=True)[: self.bfs_budget]
DepthOrder ==
    LET n == Len(scored)
        pos(i) == 1 + Cardinality({j \in 1..n :
                        scored[j].score > scored[i].score
                        \/ (scored[j].score = scored[i].score /\ j < i)})
        sorted == [k \in 1..n |-> scored[CHOOSE i \in 1..n : pos(i) = k].cond]
    IN SubSeq(sorted, 1, Min(BfsBudget, n))

\* line 784 and the end of the loop at line 760
process_findings_next ==
    /\ pc = "breadth"
    /\ ci > Len(topconds[fi])
    /\ IF fi < NFindings
       THEN /\ fi' = fi + 1
            /\ pc' = "open"
            /\ UNCHANGED <<scored, order, di>>
       ELSE /\ order' = DepthOrder
            /\ scored' = <<>>
            /\ di' = 1
            /\ pc' = "depth"
            /\ UNCHANGED fi
    /\ UNCHANGED <<ci, topconds, conds, stack, plan, workers, faults, abortCause>>
    /\ UNCHANGED ioVars
    /\ UNCHANGED agVars
    /\ UNCHANGED extVars
    /\ UNCHANGED finished

\* lines 787-795: the depth pass of the next condition of the sorted list
process_findings_depth ==
    /\ pc = "depth"
    /\ di <= Len(order)
    /\ \/ /\ conds[order[di]].state # "unknown"
          /\ di' = di + 1
          /\ UNCHANGED <<pc, stack>>
       \/ /\ conds[order[di]].state = "unknown"
          /\ stack' = <<Frame(order[di],
                              CHOOSE f \in 1..NFindings :
                                  order[di] \in Range(topconds[f]),
                              DepthStartStep, MaxSteps)>>
          /\ pc' = "depth_run"
          /\ UNCHANGED di
    /\ UNCHANGED <<fi, ci, topconds, conds, plan, workers, scored, order,
                   faults, abortCause>>
    /\ UNCHANGED ioVars
    /\ UNCHANGED agVars
    /\ UNCHANGED extVars
    /\ UNCHANGED finished

\* the loop at line 787 is exhausted
process_findings_depth_end ==
    /\ pc = "depth"
    /\ di > Len(order)
    /\ pc' = "final"
    /\ fi' = 1
    /\ order' = <<>>
    /\ UNCHANGED <<ci, topconds, conds, stack, plan, workers, scored, di,
                   faults, abortCause>>
    /\ UNCHANGED ioVars
    /\ UNCHANGED agVars
    /\ UNCHANGED extVars
    /\ UNCHANGED finished

\* lines 800-821: conditions and verdict of the next finding, persisted with
\* atomic_write; then the next finding, or the end
process_findings_verdict ==
    /\ pc = "final"
    /\ \/ /\ disk' = atomic_write(fi, FinalDoc(fi))
          /\ IF fi < NFindings
             THEN fi' = fi + 1 /\ UNCHANGED pc
             ELSE pc' = "done" /\ UNCHANGED fi
          /\ UNCHANGED <<ci, topconds, conds, stack, plan, workers, finished,
                         scored, order, di, faults, abortCause>>
       \/ /\ Raise("io")
          /\ UNCHANGED disk
    /\ UNCHANGED <<tmp, awpc, awpath, awdata, awpre, awfault, awraised>>
    /\ UNCHANGED agVars
    /\ UNCHANGED extVars

(***************************************************************************)
(* CodexAgent.run: codex_agent.py:122-173, with _parse_task, _repo_rel and *)
(* _postprocess.  A JSON value carries its type; a text is the sequence of *)
(* its words.                                                              *)
(***************************************************************************)
Str(w) == [isstr |-> TRUE, words |-> w]

NotStr == [isstr |-> FALSE, words |-> <<>>]

List(items) == [islist |-> TRUE, items |-> items]

NotList == [islist |-> FALSE, items |-> <<>>]

\* a citation object with integer line numbers, and one whose start_line is a
\* JSON string
CitOk == [path |-> "a.py", start_line |-> "1", end_line |-> "2", lines |-> "int"]

CitBad == [path |-> "a.py", start_line |-> "1", end_line |-> "2", lines |-> "str"]

\* highlights _postprocess keeps of a discover result (highlights[:3])
MaxHighlights == 3

\* stdout that json.loads rejects
NonJson ==
    [parses |-> FALSE, isdict |-> FALSE, schema_version |-> 0, stage |-> "",
     summary |-> NotStr, citations |-> NotList, highlights |-> 0]

\* stdout that is JSON but no object
NotDict == [NonJson EXCEPT !.parses = TRUE]

\* what Codex may print as its last message
Replies ==
    {NonJson, NotDict}
    \cup {[parses |-> TRUE, isdict |-> TRUE, schema_version |-> v,
           stage |-> "exec", summary |-> s, citations |-> c, highlights |-> 0] :
            v \in {1, 2},
            s \in {Str(<<"error:", "denied">>), Str(<<"found">>), NotStr},
            c \in {NotList, List(<<>>), List(<<CitOk>>), List(<<CitOk, CitBad>>)}}
    \cup {[parses |-> TRUE, isdict |-> TRUE, schema_version |-> v,
           stage |-> "discover", summary |-> NotStr, citations |-> NotList,
           highlights |-> h] :
            v \in {1, 2}, h \in {0, 1, MaxHighlights + 1}}

\* what self.codex.exec(...) does: it returns a result, or raises CodexTimeout,
\* CodexError(result) or another exception
DispOutcomes ==
    {[kind |-> "return", reply |-> r, code |-> 0, msg |-> <<>>] : r \in Replies}
    \cup {[kind |-> "timeout", reply |-> NonJson, code |-> 0, msg |-> <<>>]}
    \cup {[kind |-> "exit", reply |-> NonJson, code |-> c, msg |-> <<>>] :
            c \in {1, 137}}
    \cup {[kind |-> "exception", reply |-> NonJson, code |-> 0,
           msg |-> <<"broken", "pipe">>]}

NoOutcome == [kind |-> "none", reply |-> NonJson, code |-> 0, msg |-> <<>>]

\* the task strings: "<prefix><path>" or "<prefix><path>::<payload>"
AgentPaths == {"p.py", "sub/../p.py", "../q.py", "/etc/q.py", ""}

AgentTasks ==
    {[prefix |-> "codex:exec:", sep |-> sp, path |-> p] :
        sp \in BOOLEAN, p \in AgentPaths}
    \cup {[prefix |-> "codex:discover:", sep |-> FALSE, path |-> p] : p \in AgentPaths}
    \cup {[prefix |-> "codex:other:", sep |-> FALSE, path |-> "p.py"]}

\* a path check that resolves nothing and compares nothing
_repo_rel_Unchecked(p) == IF p = "" THEN "." ELSE p

\* _repo_rel, lines 38-43: (root / p).resolve() relative to root; "outside"
\* when root is neither the path nor one of its parents
_repo_rel(p) ==
    CASE p = "p.py" -> "p.py"
      [] p = "sub/../p.py" -> "p.py"
      [] p = "" -> "."
      [] OTHER -> "outside"

\* _parse_task, lines 23-36: the ValueError it raises ("" when it returns)
ParseError(task) ==
    CASE task.prefix = "codex:discover:" ->
            IF _repo_rel(task.path) = "outside" THEN "path outside repo" ELSE ""
      [] task.prefix = "codex:exec:" ->
            IF ~task.sep THEN "unsupported task"
            ELSE IF _repo_rel(task.path) = "outside" THEN "path outside repo"
                 ELSE ""
      [] OTHER -> "unsupported task"

_parse_task(task) ==
    [kind |-> IF task.prefix = "codex:discover:" THEN "discover" ELSE "exec",
     path |-> _repo_rel(task.path)]

NotParsed == [kind |-> "", path |-> ""]

\* the values run returns or raises, one record shape for all
Value(shape) ==
    [shape |-> shape, schema_version |-> 0, stage |-> "", summary |-> <<>>,
     citations |-> <<>>, notes |-> "", highlights |-> 0, error |-> <<>>]

NoValue == Value("none")

Exception(msg) == [Value("exception") EXCEPT !.error = msg]

\* the exec observations run builds itself, lines 141-147, 151-157, 166-172
ErrorObservation(summary, notes) ==
    [Value("exec_observation") EXCEPT
       !.schema_version = 1, !.stage = "exec", !.summary = summary,
       !.notes = notes]

\* lines 86-102: the shape checks of an exec reply
ValidExecShape(r) ==
    /\ r.isdict
    /\ r.schema_version = 1
    /\ r.stage = "exec"
    /\ r.summary.isstr
    /\ r.citations.islist

ValidCitation(c) == c.lines = "int"

\* lines 108-118: the checks of a discover reply
ValidDiscoverShape(r) ==
    /\ r.isdict
    /\ r.schema_version = 1
    /\ r.stage = "discover"

\* _postprocess, lines 80-119: the ValueError it raises (<<>> when it returns)
PostprocessError(kind, r) ==
    IF ~r.parses THEN <<"non-json", "output">>
    ELSE IF kind = "exec"
         THEN IF ~ValidExecShape(r) THEN <<"invalid", "exec", "observation">>
              ELSE IF \E i \in DOMAIN r.citations.items :
                          ~ValidCitation(r.citations.items[i])
                   THEN <<"invalid", "citation", "object">>
                   ELSE <<>>
         ELSE IF ~ValidDiscoverShape(r) THEN <<"invalid", "discover", "result">>
              ELSE IF r.highlights = 0
                   THEN <<"discover:", "missing", "evidence.highlights">>
                   ELSE <<>>

\* a _postprocess that returns the summary as Codex wrote it
Summary_Kept(words, citations) == words

\* lines 103-104: a summary that is no error and comes without citations is
\* replaced
Summary(words, citations) ==
    IF ~StartsWithError(words) /\ citations = <<>>
    THEN <<"error:", "missing-citation">>
    ELSE words

\* _postprocess when it returns: the data of the reply
_postprocess(kind, r) ==
    IF kind = "exec"
    THEN [Value("exec_observation") EXCEPT
            !.schema_version = r.schema_version,
            !.stage = r.stage,
            !.summary = Summary(r.summary.words, r.citations.items),
            !.citations = r.citations.items]
    ELSE [Value("discover_result") EXCEPT
            !.schema_version = r.schema_version,
            !.stage = r.stage,
            !.highlights = Min(r.highlights, MaxHighlights)]

\* line 122: _parse_task(task), outside the try block
agent_parse ==
    /\ agpc = "called"
    /\ IF ParseError(agtask) # ""
       THEN /\ agpc' = "raised"
            /\ agres' = Exception(<<ParseError(agtask)>>)
            /\ UNCHANGED agparsed
       ELSE /\ agpc' = "exec"
            /\ agparsed' = _parse_task(agtask)
            /\ UNCHANGED agres
    /\ UNCHANGED <<agtask, agdisp>>
    /\ UNCHANGED <<ioVars, orchVars, extVars>>

\* lines 131-137: self.codex.exec(...) returns or raises
agent_codex_exec ==
    /\ agpc = "exec"
    /\ \E o \in DispOutcomes :
         /\ agdisp' = o
         /\ agpc' = CASE o.kind = "return" -> "postprocess"
                      [] o.kind = "timeout" -> "except_timeout"
                      [] o.kind = "exit" -> "except_codex_error"
                      [] OTHER -> "except_exception"
    /\ UNCHANGED <<agtask, agparsed, agres>>
    /\ UNCHANGED <<ioVars, orchVars, extVars>>

\* line 138: return self._postprocess(kind, path, res); its ValueError is
\* caught by the last handler
agent_postprocess ==
    /\ agpc = "postprocess"
    /\ LET err == PostprocessError(agparsed.kind, agdisp.reply)
       IN IF err # <<>>
          THEN /\ agpc' = "except_exception"
               /\ agdisp' = [agdisp EXCEPT !.msg = err]
               /\ UNCHANGED agres
          ELSE /\ agpc' = "returned"
               /\ agres' = _postprocess(agparsed.kind, agdisp.reply)
               /\ UNCHANGED agdisp
    /\ UNCHANGED <<agtask, agparsed>>
    /\ UNCHANGED <<ioVars, orchVars, extVars>>

\* lines 139-148: except CodexTimeout
agent_except_timeout ==
    /\ agpc = "except_timeout"
    /\ agpc' = "returned"
    /\ agres' = IF agparsed.kind = "exec"
                THEN ErrorObservation(<<"error:", "timeout">>, "")
                ELSE [Value("error_dict") EXCEPT !.error = <<"timeout">>]
    /\ UNCHANGED <<agtask, agparsed, agdisp>>
    /\ UNCHANGED <<ioVars, orchVars, extVars>>

\* lines 149-163: except CodexError
agent_except_codex_error ==
    /\ agpc = "except_codex_error"
    /\ agpc' = "returned"
    /\ agres' = IF agparsed.kind = "exec"
                THEN ErrorObservation(
                         <<"error:", "codex-exit", ToString(agdisp.code)>>,
                         "stderr")
                ELSE [Value("error_dict") EXCEPT !.error = <<"codex-exit">>]
    /\ UNCHANGED <<agtask, agparsed, agdisp>>
    /\ UNCHANGED <<ioVars, orchVars, extVars>>

\* a last handler that re-raises for every kind
ReturnsObservation_Never(kind) == FALSE

\* line 165: the last handler returns an observation for exec and re-raises
\* otherwise
ReturnsObservation(kind) == kind = "exec"

\* lines 164-173: except Exception
agent_except_exception ==
    /\ agpc = "except_exception"
    /\ IF ReturnsObservation(agparsed.kind)
       THEN /\ agpc' = "returned"
            /\ agres' = ErrorObservation(<<"error:">> \o agdisp.msg, "")
       ELSE /\ agpc' = "raised"
            /\ agres' = Exception(agdisp.msg)
    /\ UNCHANGED <<agtask, agparsed, agdisp>>
    /\ UNCHANGED <<ioVars, orchVars, extVars>>

\* the agent's variables while no call of run is modelled
AgentIdle ==
    /\ agpc = "idle"
    /\ agtask = [prefix |-> "", sep |-> FALSE, path |-> ""]
    /\ agparsed = NotParsed
    /\ agdisp = NoOutcome
    /\ agres = NoValue

\* main's variables while main does not run
RunIdle ==
    /\ rpc = "idle"
    /\ runno = 1
    /\ manifest = <<>>
    /\ rootGiven = FALSE
    /\ rundir = FALSE
    /\ mfiles = <<>>
    /\ world = [raises |-> FALSE, shape |-> <<>>]
    /\ initial = <<>>
    /\ si = 1
    /\ rfiles = <<>>
    /\ counts = [manifest_files |-> 0, findings_written |-> 0, errors |-> 0]
    /\ runjson = [exists |-> FALSE, finished_at |-> FALSE, errors |-> 0]
    /\ exitcode = -1
    /\ prevnames = {}

\* processes that call save_cache on one memo directory
MaxWriters == 3

\* the memo directory: <key>.json per key and lock.json, each absent, opened
\* for writing and not yet complete, or whole; and per writer its position in
\* save_cache and its local variable lock
MemoDir(at) ==
    [files |-> [k \in 1..MaxWriters |-> "absent"],
     lock |-> [state |-> "absent", keys |-> {}],
     w |-> [i \in 1..MaxWriters |-> [pc |-> at, lock |-> {}]]]

\* the added components at rest
\* no LLM call has failed, no response is being saved
LlmIdle ==
    /\ llmTry = 0
    /\ llmSite = <<>>
    /\ memo = MemoDir("idle")

\* no exec call has been made
DispatchIdle ==
    /\ dxpc = "idle"
    /\ dxreq = [req |-> [prompt |-> "p", repo |-> "r1", flags |-> <<>>],
                hit |-> FALSE]
    /\ dxretries = 0
    /\ dxcache = <<>>
    /\ dxattempt = 0
    /\ dxlaunched = 0
    /\ dxchild = [state |-> "none", code |-> 0, msg |-> "", err |-> "",
                  held |-> FALSE]
    /\ dxcmd = <<>>
    /\ dxtmp = FALSE
    /\ dxres = [kind |-> "none",
                result |-> [stdout |-> "", stderr |-> "", returncode |-> -1,
                            duration_sec |-> 0, cmd |-> <<>>]]
    /\ dxcalls = 0
    /\ dxdone = <<>>

ExtIdle == RunIdle /\ LlmIdle /\ DispatchIdle

(***************************************************************************)
(* Spec: process_findings on a run directory of seeded findings.           *)
(***************************************************************************)
Init ==
    /\ disk = [f \in 1..NFindings |-> FileOf(EmptyDoc)]
    /\ tmp = Absent
    /\ awpc = "idle"
    /\ awpath = 1
    /\ awdata = EmptyDoc
    /\ awpre = Absent
    /\ awfault = ""
    /\ awraised = ""
    /\ pc = "open"
    /\ fi = 1
    /\ ci = 1
    /\ topconds = [f \in 1..NFindings |-> <<>>]
    /\ conds = <<>>
    /\ stack = <<>>
    /\ plan = <<>>
    /\ workers = <<>>
    /\ finished = <<>>
    /\ scored = <<>>
    /\ order = <<>>
    /\ di = 1
    /\ faults = 0
    /\ abortCause = ""
    /\ AgentIdle
    /\ ExtIdle

Next ==
    \/ process_findings_derive
    \/ process_findings_breadth
    \/ process_findings_score
    \/ process_findings_next
    \/ process_findings_depth
    \/ process_findings_depth_end
    \/ process_findings_verdict
    \/ resolve_plan
    \/ execute_tasks_run
    \/ execute_tasks_collect
    \/ resolve_judge
    \/ resolve_narrow
    \/ resolve_sub
    \/ resolve_aggregate

Spec == Init /\ [][Next]_vars

\* the engine's variables while only the file layer runs
OrchIdle ==
    /\ pc = "idle"
    /\ fi = 1
    /\ ci = 1
    /\ topconds = <<>>
    /\ conds = <<>>
    /\ stack = <<>>
    /\ plan = <<>>
    /\ workers = <<>>
    /\ finished = <<>>
    /\ scored = <<>>
    /\ order = <<>>
    /\ di = 1
    /\ faults = 0
    /\ abortCause = ""

(***************************************************************************)
(* SpecIO: atomic_write called on one path with arbitrary documents, the   *)
(* target absent or present at the start.                                  *)
(***************************************************************************)
IoPaths == {1}

IoDocs == {[tasks_log |-> <<>>, conditions |-> <<>>, verdict |-> v] :
             v \in {"none", "UNKNOWN", "TRUE_POSITIVE", "FALSE_POSITIVE"}}

IoInit ==
    /\ disk \in [IoPaths -> {Absent} \cup {FileOf(d) : d \in IoDocs}]
    /\ tmp = Absent
    /\ awpc = "idle"
    /\ awpath = 1
    /\ awdata = EmptyDoc
    /\ awpre = Absent
    /\ awfault = ""
    /\ awraised = ""
    /\ OrchIdle
    /\ AgentIdle
    /\ ExtIdle

IoCall ==
    /\ \E p \in IoPaths, d \in IoDocs : atomic_write_call(p, d)
    /\ UNCHANGED orchVars
    /\ UNCHANGED agVars
    /\ UNCHANGED extVars

IoNext ==
    \/ IoCall
    \/ atomic_write_mkstemp
    \/ atomic_write_mkstemp_fails
    \/ atomic_write_write
    \/ atomic_write_write_fails
    \/ atomic_write_replace
    \/ atomic_write_replace_fails
    \/ atomic_write_except

SpecIO == IoInit /\ [][IoNext]_vars

(***************************************************************************)
(* SpecExec: resolve_condition(condition, finding_path) called with its     *)
(* default arguments on the first condition of a finding, the planner, the  *)
(* workers and every statement of atomic_write interleaved as the code      *)
(* orders them.  The run has emitted all its conditions: narrowing adds     *)
(* none.                                                                    *)
(***************************************************************************)
ExecInit ==
    /\ disk = [f \in 1..NFindings |-> FileOf(EmptyDoc)]
    /\ tmp = Absent
    /\ awpc = "idle"
    /\ awpath = 1
    /\ awdata = EmptyDoc
    /\ awpre = Absent
    /\ awfault = ""
    /\ awraised = ""
    /\ pc = "resolve_run"
    /\ fi = 1
    /\ ci = 1
    /\ conds = [i \in 1..MaxConds |-> NewCondition]
    /\ topconds = [f \in 1..NFindings |->
                     IF f = 1 THEN [i \in 1..MaxConds |-> i] ELSE <<>>]
    /\ stack = <<Frame(1, 1, 0, MaxSteps)>>
    /\ plan = <<>>
    /\ workers = <<>>
    /\ finished = <<>>
    /\ scored = <<>>
    /\ order = <<>>
    /\ di = 1
    /\ faults = 0
    /\ abortCause = ""
    /\ AgentIdle
    /\ ExtIdle

ExecNext ==
    \/ resolve_plan
    \/ execute_tasks_run
    \/ execute_tasks_call
    \/ atomic_write_mkstemp
    \/ atomic_write_mkstemp_fails
    \/ atomic_write_write
    \/ atomic_write_write_fails
    \/ atomic_write_replace
    \/ atomic_write_replace_fails
    \/ atomic_write_except
    \/ execute_tasks_returned
    \/ persistence_error
    \/ resolve_judge
    \/ resolve_narrow

SpecExec == ExecInit /\ [][ExecNext]_vars

\* C2: when atomic_write fails (temp write or rename, or creating the temp
\* file), the target is byte-identical to its state before the call (or still
\* absent), no temp file remains in the directory, and the error that is
\* raised is the original one.
C2_FailureLeavesTargetUntouched ==
    awpc = "raised" =>
        /\ disk[awpath] = awpre
        /\ ~tmp.exists
        /\ awraised = awfault
        /\ awraised # ""

\* witness of C2: a rename failure over an existing target, temp removed
C2_Witness ==
    /\ awpc = "raised"
    /\ awfault = "replace"
    /\ awpre.exists
    /\ awdata # awpre.data

(***************************************************************************)
(* SpecVerdict: the final loop of process_findings (lines 800-821) applied *)
(* to every assignment of judged states to the top-level conditions of the *)
(* findings, each condition carrying the evidence of its breadth pass.     *)
(***************************************************************************)
\* the batch of a breadth pass in which every agent call succeeded
BreadthPairs ==
    LET tasks == generate_tasks(NewCondition, <<[mode |-> "exec", task |-> TSearch]>>)
    IN [i \in DOMAIN tasks |-> [t |-> tasks[i], out |-> "ok"]]

\* a condition after its breadth pass, judged st
JudgedCondition(st) ==
    [CollectCondition(NewCondition, BreadthPairs) EXCEPT
       !.state = st, !.rationale = "r"]

\* the ids of owner's conditions of finding f, ascending
OwnedBy(owner, f) ==
    LET n == Len(owner)
    IN Pick([i \in 1..n |-> i], {i \in 1..n : owner[i] = f}, 1)

VerdictInit ==
    /\ \E n \in 0..MaxConds :
         \E sts \in [1..n -> JudgeReplies], owner \in [1..n -> 1..NFindings] :
           /\ \A i \in 1..n, j \in 1..n : i < j => owner[i] <= owner[j]
           /\ conds = [i \in 1..n |-> JudgedCondition(sts[i])]
           /\ topconds = [f \in 1..NFindings |-> OwnedBy(owner, f)]
           /\ disk = [f \in 1..NFindings |->
                        FileOf([EmptyDoc EXCEPT !.tasks_log =
                            [k \in DOMAIN OwnedBy(owner, f) |->
                               [condition |-> OwnedBy(owner, f)[k],
                                executed |-> TaskResults(SortedPairs(BreadthPairs))]]])]
    /\ tmp = Absent
    /\ awpc = "idle"
    /\ awpath = 1
    /\ awdata = EmptyDoc
    /\ awpre = Absent
    /\ awfault = ""
    /\ awraised = ""
    /\ pc = "final"
    /\ fi = 1
    /\ ci = 1
    /\ stack = <<>>
    /\ plan = <<>>
    /\ workers = <<>>
    /\ finished = <<>>
    /\ scored = <<>>
    /\ order = <<>>
    /\ di = 1
    /\ faults = 0
    /\ abortCause = ""
    /\ AgentIdle
    /\ ExtIdle

VerdictNext == process_findings_verdict

SpecVerdict == VerdictInit /\ [][VerdictNext]_vars

\* the states of the top-level conditions a finding file records
StatesOnDisk(f) ==
    {disk[f].data.conditions[i].state : i \in DOMAIN disk[f].data.conditions}

\* C1: the verdict process_findings writes for a finding is a function of the
\* set S of its top-level condition states: TRUE_POSITIVE iff S = {satisfied},
\* FALSE_POSITIVE iff failed is in S and satisfied is not, UNKNOWN in every
\* other case (no conditions, or satisfied and failed mixed).
C1_VerdictIsFunctionOfStates ==
    \A f \in DOMAIN disk :
        disk[f].data.verdict # "none" =>
            LET S == StatesOnDisk(f)
                v == disk[f].data.verdict
                tp == S = {"satisfied"}
                fp == "failed" \in S /\ "satisfied" \notin S
            IN /\ v \in {"TRUE_POSITIVE", "FALSE_POSITIVE", "UNKNOWN"}
               /\ v = "TRUE_POSITIVE" <=> tp
               /\ v = "FALSE_POSITIVE" <=> fp
               /\ v = "UNKNOWN" <=> (~tp /\ ~fp)

\* witness of C1: the run is over; one finding mixes satisfied and failed and
\* is UNKNOWN, another has no conditions
C1_Witness ==
    /\ pc = "done"
    /\ \E f \in DOMAIN disk :
         /\ {"satisfied", "failed"} \subseteq StatesOnDisk(f)
         /\ disk[f].data.verdict = "UNKNOWN"

\* C3: at every moment every finding file on disk is a complete document,
\* the one committed before the running atomic_write or the one it commits,
\* never a truncated one; and the control thread is the only writer: while it
\* is inside atomic_write no worker of the batch is running.
C3_ReaderSeesCommitted ==
    /\ \A f \in DOMAIN disk : IsComplete(disk[f])
    /\ awpc # "idle" => disk[awpath] \in {awpre, FileOf(awdata)}
    /\ awpc \in {"mkstemp", "write", "replace", "except"} =>
           /\ AllDone
           /\ Resolving /\ Top.at = "write"

\* witness of C3: the second batch of a condition is half written to the temp
\* file while the finding file still holds the first
C3_Witness ==
    /\ awpc = "write"
    /\ tmp.exists /\ tmp.len = 1
    /\ Len(disk[awpath].data.tasks_log) = 1
    /\ Len(awdata.tasks_log) = 2

\* the number of tasks of the batch whose agent call returned
Returned(ws) == Cardinality({i \in DOMAIN ws : ws[i] # "raise"})

\* C10: a task whose agent call raised does not abort the batch: the step of
\* _execute_tasks that collects the batch records every task in the new
\* tasks_log entry, the raising ones with an error field and no output, the
\* others with their output; the evidence grows by the returned observations
\* only; and control goes on to the write and then to JUDGE.
C10_RaisingTaskDoesNotAbort ==
    [][/\ (Resolving /\ Top.at = "exec" /\ AllDone /\ workers # <<>>) =>
            LET c == Top.cond
                entry == awdata'.tasks_log[Len(awdata'.tasks_log)]
                sorted == SortedPairs(Pairs)
            IN /\ pc' = pc
               /\ stack'[Len(stack')].at = "write"
               /\ Len(conds'[c].evidence) = Len(conds[c].evidence) + Returned(workers)
               /\ \A i \in DOMAIN conds'[c].evidence :
                      i > Len(conds[c].evidence) =>
                          \E j \in DOMAIN workers :
                              /\ workers[j] # "raise"
                              /\ conds'[c].evidence[i].about = plan[j].task
               /\ Len(entry.executed) = Len(workers)
               /\ \A i \in DOMAIN sorted :
                      /\ entry.executed[i].task = sorted[i].t.task
                      /\ IF sorted[i].out = "raise"
                         THEN /\ "error" \in DOMAIN entry.executed[i]
                              /\ "output" \notin DOMAIN entry.executed[i]
                         ELSE /\ "output" \in DOMAIN entry.executed[i]
                              /\ "error" \notin DOMAIN entry.executed[i]
       /\ (Resolving /\ Top.at = "write" /\ awpc = "returned") =>
            /\ pc' = pc
            /\ stack'[Len(stack')].at = "judge"
            /\ conds' = conds
      ]_vars

\* witness of C10: JUDGE is reached after a batch in which one task raised
\* and another returned
C10_Witness ==
    /\ Resolving
    /\ Top.at = "judge"
    /\ LET log == disk[Top.finding].data.tasks_log
           entry == log[Len(log)]
       IN /\ \E i \in DOMAIN entry.executed : "error" \in DOMAIN entry.executed[i]
          /\ \E i \in DOMAIN entry.executed : "output" \in DOMAIN entry.executed[i]

\* the condition trees of finding f as Condition.to_dict serialises them
TreesInMemory(f) == [i \in DOMAIN topconds[f] |-> to_dict(topconds[f][i])]

\* C4: between two pipeline steps the finding file holds the condition tree
\* the engine has in memory: every derive, evidence, state, rationale and
\* sub-condition change is on disk before the next step starts.
C4_FileReflectsConditions ==
    pc \in {"breadth", "score", "depth", "final", "done"} =>
        \A f \in DOMAIN disk : disk[f].data.conditions = TreesInMemory(f)

\* C5: at pipeline end every condition, at any depth, has a state of
\* {satisfied, failed, unknown}, whatever the judge tool call returned.
C5_TerminalStatesAtEnd ==
    pc = "done" =>
        \A c \in DOMAIN conds : conds[c].state \in {"satisfied", "failed", "unknown"}

\* C6: whatever the planner, the judge, the narrowing tool and the agent
\* answer, process_findings does not end before every finding has its verdict
\* (leaving aside I/O errors and planner replies that generate_tasks rejects):
\* the narrowing recursion stays within what the step budget allows.
C6_RunEndsWithVerdicts ==
    (pc \in {"done", "aborted"} /\ abortCause \notin {"io", "plan"}) =>
        \A f \in DOMAIN disk : disk[f].data.verdict # "none"

(***************************************************************************)
(* SpecAgent: one call of CodexAgent.run on every task string, with every  *)
(* outcome of the dispatcher.                                              *)
(***************************************************************************)
AgentInit ==
    /\ agpc = "called"
    /\ agtask \in AgentTasks
    /\ agparsed = NotParsed
    /\ agdisp = NoOutcome
    /\ agres = NoValue
    /\ disk = [f \in 1..NFindings |-> FileOf(EmptyDoc)]
    /\ tmp = Absent
    /\ awpc = "idle"
    /\ awpath = 1
    /\ awdata = EmptyDoc
    /\ awpre = Absent
    /\ awfault = ""
    /\ awraised = ""
    /\ OrchIdle
    /\ ExtIdle

AgentNext ==
    \/ agent_parse
    \/ agent_codex_exec
    \/ agent_postprocess
    \/ agent_except_timeout
    \/ agent_except_codex_error
    \/ agent_except_exception

SpecAgent == AgentInit /\ [][AgentNext]_vars

\* C7: every exec observation run returns whose summary does not begin with
\* "error:" has at least one citation; a reply that is no error and has no
\* citations comes back with the summary "error: missing-citation".
C7_NonErrorHasCitations ==
    (agpc = "returned" /\ agres.shape = "exec_observation") =>
        /\ ~StartsWithError(agres.summary) => agres.citations # <<>>
        /\ (/\ agdisp.kind = "return"
            /\ agdisp.reply.summary.isstr
            /\ ~StartsWithError(agdisp.reply.summary.words)
            /\ agdisp.reply.citations = List(<<>>)
            /\ agdisp.msg = <<>>)
           => agres.summary = <<"error:", "missing-citation">>

\* witness of C7: a reply "found" without citations was rewritten
C7_Witness ==
    /\ agpc = "returned"
    /\ agdisp.kind = "return"
    /\ agdisp.reply.summary = Str(<<"found">>)
    /\ agdisp.reply.citations = List(<<>>)
    /\ agres.summary = <<"error:", "missing-citation">>

\* C8: every exec observation run returns whose summary begins with "error:"
\* has no citations, whether run built it or Codex wrote it.
C8_ErrorHasNoCitations ==
    (agpc = "returned" /\ agres.shape = "exec_observation"
        /\ StartsWithError(agres.summary)) =>
        agres.citations = <<>>

\* the reply is not the exec observation the schema describes
SchemaInvalid(r) ==
    \/ ~r.parses
    \/ ~r.isdict
    \/ r.schema_version # 1
    \/ r.stage # "exec"
    \/ ~r.summary.isstr
    \/ ~r.citations.islist
    \/ \E i \in DOMAIN r.citations.items : r.citations.items[i].lines # "int"

ByHash ==
    CHOOSE perm \in [DOMAIN plan -> DOMAIN plan] :
        /\ \A i, j \in DOMAIN plan : i # j => perm[i] # perm[j]
        /\ \A i, j \in DOMAIN plan :
               i < j => input_sha1(plan[perm[i]].task) <= input_sha1(plan[perm[j]].task)

\* C11: whatever the order in which the workers of a batch completed, the
\* entries of the new tasks_log entry are the tasks in ascending input_sha1,
\* each with what the agent did for it, and the observations appended to the
\* evidence are those of the returned tasks in the same order.
C11_ExecOrderIndependent ==
    (Resolving /\ Top.at = "write" /\ awpc # "idle" /\ plan # <<>>) =>
        LET entry == awdata.tasks_log[Len(awdata.tasks_log)]
            ev == conds[Top.cond].evidence
            kept == Pick(ByHash, {i \in DOMAIN plan : workers[ByHash[i]] # "raise"}, 1)
            base == Len(ev) - Len(kept)
        IN /\ Len(entry.executed) = Len(plan)
           /\ \A i \in DOMAIN plan :
                  /\ entry.executed[i].task = plan[ByHash[i]].task
                  /\ entry.executed[i].input_sha1 = input_sha1(plan[ByHash[i]].task)
                  /\ IF workers[ByHash[i]] = "raise"
                     THEN "error" \in DOMAIN entry.executed[i]
                     ELSE entry.executed[i].output =
                              Observation(plan[ByHash[i]].task, workers[ByHash[i]])
           /\ base >= 0
           /\ \A k \in DOMAIN kept :
                  ev[base + k] = Observation(plan[kept[k]].task, workers[kept[k]])

\* witness of C11: the first task completed first and is recorded last
C11_Witness ==
    /\ Resolving
    /\ Top.at = "write"
    /\ awpc = "returned"
    /\ Len(plan) = 2
    /\ finished = <<1, 2>>
    /\ disk[Top.finding].data.tasks_log[Len(disk[Top.finding].data.tasks_log)]
           .executed[2].task = plan[1].task

(***************************************************************************)
(* main (run_pipeline.py): the run directory, manifest validation          *)
(* (util/manifest.py, util/paths.py), discovery and seeding.               *)
(***************************************************************************)
\* lines of a manifest file
MaxLines == 2
\* findings discovery returns for one file (one per lens variant, variants[:3])
MaxLens == 2

\* the files of the tool's own tree, which util.paths.REPO_ROOT names at import
ToolFiles == {"a.py", "c.py"}

\* the files of the tree --repo-root names, when it names another tree
GivenFiles == {"a.py", "b.py"}

\* the files under repo_root (line 63; the default is paths.REPO_ROOT)
RepoFiles == IF rootGiven THEN GivenFiles ELSE ToolFiles

\* manifest lines after strip(): relative, with a traversal that stays inside,
\* absolute inside the root, leaving the root, and blank
Entries == {"a.py", "b.py", "c.py", "sub/../a.py", "/repo/a.py", "../x.py",
            "/etc/x.py", ""}

Outside == "<outside>"

\* paths.py:8-19  resolve against REPO_ROOT, then relative_to(REPO_ROOT);
\* ValueError when the resolved path is not under the root
repo_rel(path) ==
    CASE path = "sub/../a.py" -> "a.py"
      [] path = "/repo/a.py" -> "a.py"
      [] path = "../x.py" -> Outside
      [] path = "/etc/x.py" -> Outside
      [] OTHER -> path

\* the order of as_posix() strings
PathOrder == <<"a.py", "b.py", "c.py">>

\* manifest.py:27  sorted(paths, key=lambda p: p.as_posix())
SortedPaths(paths) == SelectSeq(PathOrder, LAMBDA p : p \in Range(paths))

\* manifest.py:20  abs_path.exists(), with the REPO_ROOT that manifest.py bound
\* when it was imported (main rebinds only util.paths.REPO_ROOT, line 65)
ManifestExists(rel) == rel \in ToolFiles

\* manifest.py:14-26  the loop over the lines; the first bad line raises
RECURSIVE validate_lines(_, _, _)
validate_lines(lines, i, paths) ==
    IF i > Len(lines)
    THEN [error |-> "", paths |-> SortedPaths(paths)]
    ELSE LET entry == lines[i]
             rel == repo_rel(entry)
         IN IF entry = ""
            THEN validate_lines(lines, i + 1, paths)
            ELSE IF rel = Outside
            THEN [error |-> "ValueError: outside", paths |-> <<>>]
            ELSE IF ~ManifestExists(rel)
            THEN [error |-> "FileNotFoundError", paths |-> <<>>]
            ELSE IF rel \in Range(paths)
            THEN [error |-> "ValueError: duplicate", paths |-> <<>>]
            ELSE validate_lines(lines, i + 1, Append(paths, rel))

\* manifest.py:9-27
validate_manifest(lines) == validate_lines(lines, 1, <<>>)

\* the orders of a list
Orderings(s) ==
    {t \in [DOMAIN s -> Range(s)] : \A i, j \in DOMAIN s : i # j => t[i] # t[j]}

\* Path(s).as_posix(): a leading "./" is dropped, ".." is kept
as_posix(s) ==
    CASE s = "./a.py" -> "a.py"
      [] s = "./b.py" -> "b.py"
      [] s = "./c.py" -> "c.py"
      [] OTHER -> s

\* hashlib.sha1(s.encode()).hexdigest()[:12], on the strings of the model
Sha1Hex12(s) ==
    CASE s = "a.py" -> 10
      [] s = "b.py" -> 11
      [] s = "c.py" -> 12
      [] s = "gone.py" -> 13
      [] OTHER -> 14

\* an id salted with the run
finding_id_PerRun(rel_path) == Sha1Hex12(as_posix(rel_path)) + 100 * runno

\* run_pipeline.py:204
finding_id(rel_path) == Sha1Hex12(as_posix(rel_path))

\* what the agent reports for one file and one lens: a claim and files[0]
Kinds == {"first", "second", "alias", "gone"}

Alias(p) ==
    CASE p = "a.py" -> "./a.py"
      [] p = "b.py" -> "./b.py"
      [] OTHER -> "./c.py"

\* orchestrator.py:186-197  claim, files and evidence from the agent's data
Discovered(kind, code_path) ==
    [claim |-> IF kind = "second" THEN "second" ELSE "first",
     file |-> CASE kind = "alias" -> Alias(code_path)
                [] kind = "gone" -> "gone.py"
                [] OTHER -> code_path]

\* deterministic discovery: per file the same lenses answer in the same way;
\* raises: the gatherer rejects the call main makes
Worlds ==
    {[raises |-> r, shape |-> s] :
        r \in BOOLEAN,
        s \in UNION {[1..n -> Kinds] : n \in 0..MaxLens}}

\* orchestrator.py:198-205  the key (claim, files[0]) seen before is skipped
RECURSIVE gather_loop(_, _, _, _, _)
gather_loop(files, shape, i, k, findings) ==
    IF i > Len(files) THEN findings
    ELSE IF k > Len(shape) THEN gather_loop(files, shape, i + 1, 1, findings)
    ELSE LET f == Discovered(shape[k], files[i])
         IN gather_loop(files, shape, i, k + 1,
                        IF f \in Range(findings) THEN findings
                        ELSE Append(findings, f))

\* orchestrator.py:159-206
gather_initial_findings(files, w) == gather_loop(files, w.shape, 1, 1, <<>>)

\* run_pipeline.py:205-223  the finding document
SeededDoc(f) ==
    [claim |-> f.claim, files |-> f.file, path |-> as_posix(f.file),
     status |-> "seeded"]

\* the names finding_<id>.json of run_path
Names == DOMAIN rfiles

\* run_pipeline.py:96  run_path.mkdir(parents=True, exist_ok=False)
main_mkdir ==
    /\ rpc = "start"
    /\ rundir' = TRUE
    /\ rpc' = "validate"
    /\ UNCHANGED <<runno, manifest, rootGiven, mfiles, world, initial, si,
                   rfiles, counts, runjson, exitcode, prevnames>>
    /\ UNCHANGED <<ioVars, orchVars, agVars, llmVars, dxVars>>

\* run_pipeline.py:124-156  validate_manifest, then the reordering by hotspot
\* score and changed files (lines 138-147); an exception removes the run
\* directory and exits with code 1
main_validate ==
    /\ rpc = "validate"
    /\ LET r == validate_manifest(manifest)
       IN IF r.error # ""
          THEN /\ rundir' = FALSE
               /\ exitcode' = 1
               /\ rpc' = "exited"
               /\ UNCHANGED mfiles
          ELSE /\ mfiles' \in Orderings(r.paths)
               /\ rpc' = "envelope"
               /\ UNCHANGED <<rundir, exitcode>>
    /\ UNCHANGED <<runno, manifest, rootGiven, world, initial, si, rfiles,
                   counts, runjson, prevnames>>
    /\ UNCHANGED <<ioVars, orchVars, agVars, llmVars, dxVars>>

\* run_pipeline.py:162-181  the first run.json, then counts["manifest_files"]
main_envelope ==
    /\ rpc = "envelope"
    /\ runjson' = [exists |-> TRUE, finished_at |-> FALSE, errors |-> 0]
    /\ counts' = [manifest_files |-> Len(mfiles), findings_written |-> 0,
                  errors |-> 0]
    /\ rpc' = "gather"
    /\ UNCHANGED <<runno, manifest, rootGiven, rundir, mfiles, world, initial,
                   si, rfiles, exitcode, prevnames>>
    /\ UNCHANGED <<ioVars, orchVars, agVars, llmVars, dxVars>>

\* run_pipeline.py:187-191  gather_initial_findings(manifest_files,
\* seed_sources); an exception leaves initial empty
main_gather ==
    /\ rpc = "gather"
    /\ \E w \in Worlds :
         /\ runno > 1 => w = world
         /\ world' = w
         /\ initial' = IF w.raises THEN <<>>
                       ELSE gather_initial_findings(mfiles, w)
    /\ si' = 1
    /\ rpc' = "seed"
    /\ UNCHANGED <<runno, manifest, rootGiven, rundir, mfiles, rfiles, counts,
                   runjson, exitcode, prevnames>>
    /\ UNCHANGED <<ioVars, orchVars, agVars, llmVars, dxVars>>

\* run_pipeline.py:198-236  one pass of the loop over initial; read_bytes of a
\* file that is not there counts an error
main_seed ==
    /\ rpc = "seed"
    /\ si <= Len(initial)
    /\ LET f == initial[si]
       IN IF as_posix(f.file) \notin RepoFiles
          THEN /\ counts' = [counts EXCEPT !.errors = @ + 1]
               /\ UNCHANGED rfiles
          ELSE /\ rfiles' = (finding_id(f.file) :> SeededDoc(f)) @@ rfiles
               /\ counts' = [counts EXCEPT !.findings_written = @ + 1]
    /\ si' = si + 1
    /\ UNCHANGED <<rpc, runno, manifest, rootGiven, rundir, mfiles, world,
                   initial, runjson, exitcode, prevnames>>
    /\ UNCHANGED <<ioVars, orchVars, agVars, llmVars, dxVars>>

\* run_pipeline.py:238  the loop is over; process_findings is next
main_seeded ==
    /\ rpc = "seed"
    /\ si > Len(initial)
    /\ rpc' = "process"
    /\ UNCHANGED <<runno, manifest, rootGiven, rundir, mfiles, world, initial,
                   si, rfiles, counts, runjson, exitcode, prevnames>>
    /\ UNCHANGED <<ioVars, orchVars, agVars, llmVars, dxVars>>

\* main again on the same tree with the manifest lines in another order
\* (lines 73-96: a run directory of its own)
main_again ==
    /\ rpc = "process"
    /\ runno = 1
    /\ runno' = 2
    /\ prevnames' = Names
    /\ manifest' \in Orderings(manifest)
    /\ rpc' = "start"
    /\ rundir' = FALSE
    /\ mfiles' = <<>>
    /\ initial' = <<>>
    /\ si' = 1
    /\ rfiles' = <<>>
    /\ counts' = [manifest_files |-> 0, findings_written |-> 0, errors |-> 0]
    /\ runjson' = [exists |-> FALSE, finished_at |-> FALSE, errors |-> 0]
    /\ UNCHANGED <<rootGiven, world, exitcode>>
    /\ UNCHANGED <<ioVars, orchVars, agVars, llmVars, dxVars>>

\* the file layer at rest
IoIdle ==
    /\ disk = <<>>
    /\ tmp = Absent
    /\ awpc = "idle"
    /\ awpath = 1
    /\ awdata = EmptyDoc
    /\ awpre = Absent
    /\ awfault = ""
    /\ awraised = ""

(***************************************************************************)
(* SpecRun: main from its start to the call of process_findings, on any    *)
(* manifest of up to MaxLines lines, and once more on the same lines.      *)
(***************************************************************************)
RunInit ==
    /\ rpc = "start"
    /\ runno = 1
    /\ manifest \in UNION {[1..n -> Entries] : n \in 0..MaxLines}
    /\ rootGiven \in BOOLEAN
    /\ rundir = FALSE
    /\ mfiles = <<>>
    /\ world = [raises |-> FALSE, shape |-> <<>>]
    /\ initial = <<>>
    /\ si = 1
    /\ rfiles = <<>>
    /\ counts = [manifest_files |-> 0, findings_written |-> 0, errors |-> 0]
    /\ runjson = [exists |-> FALSE, finished_at |-> FALSE, errors |-> 0]
    /\ exitcode = -1
    /\ prevnames = {}
    /\ IoIdle
    /\ OrchIdle
    /\ AgentIdle
    /\ LlmIdle
    /\ DispatchIdle

RunNext ==
    \/ main_mkdir
    \/ main_validate
    \/ main_envelope
    \/ main_gather
    \/ main_seed
    \/ main_seeded
    \/ main_again

SpecRun == RunInit /\ [][RunNext]_vars

C13_EveryFindingOwnFile ==
    rpc \in {"seed", "process"} => Cardinality(Names) = counts.findings_written

\* C14: in a run whose manifest has a duplicate line, a missing file or a
\* path outside the repository, no run directory exists at any moment
C14_NoRunDirOnManifestError ==
    validate_manifest(manifest).error # "" => ~rundir

\* the shapes of a manifest line: absolute, with a ".." component, naming no
\* file of the repository
IsAbsolute(entry) == entry \in {"/repo/a.py", "/etc/x.py"}

HasTraversal(entry) == entry \in {"sub/../a.py", "../x.py"}

NamesNoFile(entry) ==
    /\ entry # ""
    /\ repo_rel(entry) # Outside
    /\ repo_rel(entry) \notin RepoFiles

\* C15: once validate_manifest has returned or raised, it raised if some
\* line is absolute, has a ".." traversal or names a file that does not
\* exist; the run goes on with a list of paths only if no line is such
C15_BadShapeRejected ==
    (rpc \notin {"start", "validate"}
       /\ \E i \in DOMAIN manifest :
              \/ IsAbsolute(manifest[i])
              \/ HasTraversal(manifest[i])
              \/ NamesNoFile(manifest[i]))
    => rpc = "exited"

(***************************************************************************)
(* Orchestrator._with_retries around the LLM calls of resolve_condition,   *)
(* and the handler of main for the exception it raises in the end.         *)
(***************************************************************************)
\* ANCHOR_OPENAI_RETRIES defaults to 3
MaxRetries == 3

\* the LLM call the control thread is at: generate_tasks (line 380),
\* judge_condition (line 530, reached with evidence), _narrow_subconditions
\* (line 617)
AtLlmCall ==
    /\ Resolving
    /\ \/ Top.at \in {"plan", "narrow"}
       \/ Top.at = "judge" /\ conds[Top.cond].evidence # <<>>

LlmSite == <<Len(stack), Top.cond, Top.step, Top.at>>

\* attempts of the call at hand that raised
FailedHere == IF llmSite = LlmSite THEN llmTry ELSE 0

\* a loop that goes round once more
AttemptsLeft_OneMore(failed) == failed < MaxRetries + 1

\* orchestrator.py:143  for attempt in range(self.max_retries): another
\* attempt follows the failed ones
AttemptsLeft(failed) == failed < MaxRetries

\* orchestrator.py:144-155  an attempt raises and the loop goes on
llm_attempt_fails ==
    /\ AtLlmCall
    /\ AttemptsLeft(FailedHere + 1)
    /\ llmTry' = FailedHere + 1
    /\ llmSite' = LlmSite
    /\ UNCHANGED memo
    /\ UNCHANGED <<ioVars, orchVars, agVars, runVars, dxVars>>

\* orchestrator.py:156 and run_pipeline.py:240-247  the last attempt raises,
\* _with_retries raises last_exc, nothing in the engine catches it, main
\* counts the error, sets finished_at, writes run.json and exits with 1
main_llm_abort ==
    /\ rpc = "process"
    /\ AtLlmCall
    /\ ~AttemptsLeft(FailedHere + 1)
    /\ llmTry' = FailedHere + 1
    /\ llmSite' = LlmSite
    /\ UNCHANGED memo
    /\ Raise("llm")
    /\ counts' = [counts EXCEPT !.errors = @ + 1]
    /\ runjson' = [exists |-> TRUE, finished_at |-> TRUE,
                   errors |-> counts.errors + 1]
    /\ exitcode' = 1
    /\ rpc' = "exited"
    /\ UNCHANGED <<runno, manifest, rootGiven, rundir, mfiles, world, initial,
                   si, rfiles, prevnames>>
    /\ UNCHANGED <<ioVars, agVars, dxVars>>

(***************************************************************************)
(* SpecAbort: main has seeded NFindings findings and called                *)
(* process_findings; one resolve_condition runs with atomic_write          *)
(* statement by statement, and every LLM call may fail.                    *)
(***************************************************************************)
AbortInit ==
    /\ disk = [f \in 1..NFindings |-> FileOf(EmptyDoc)]
    /\ tmp = Absent
    /\ awpc = "idle"
    /\ awpath = 1
    /\ awdata = EmptyDoc
    /\ awpre = Absent
    /\ awfault = ""
    /\ awraised = ""
    /\ pc = "resolve_run"
    /\ fi = 1
    /\ ci = 1
    /\ conds = [i \in 1..MaxConds |-> NewCondition]
    /\ topconds = [f \in 1..NFindings |->
                     IF f = 1 THEN [i \in 1..MaxConds |-> i] ELSE <<>>]
    /\ stack = <<Frame(1, 1, 0, MaxSteps)>>
    /\ plan = <<>>
    /\ workers = <<>>
    /\ finished = <<>>
    /\ scored = <<>>
    /\ order = <<>>
    /\ di = 1
    /\ faults = 0
    /\ abortCause = ""
    /\ AgentIdle
    /\ LlmIdle
    /\ DispatchIdle
    /\ rpc = "process"
    /\ runno = 1
    /\ manifest = <<"a.py">>
    /\ rootGiven = FALSE
    /\ rundir = TRUE
    /\ mfiles = <<"a.py">>
    /\ world = [raises |-> FALSE, shape |-> <<>>]
    /\ initial = <<>>
    /\ si = 1
    /\ rfiles = <<>>
    /\ counts = [manifest_files |-> 1, findings_written |-> NFindings,
                 errors |-> 0]
    /\ runjson = [exists |-> TRUE, finished_at |-> FALSE, errors |-> 0]
    /\ exitcode = -1
    /\ prevnames = {}

AbortNext ==
    \/ resolve_plan
    \/ execute_tasks_run
    \/ execute_tasks_call
    \/ atomic_write_mkstemp
    \/ atomic_write_mkstemp_fails
    \/ atomic_write_write
    \/ atomic_write_write_fails
    \/ atomic_write_replace
    \/ atomic_write_replace_fails
    \/ atomic_write_except
    \/ execute_tasks_returned
    \/ persistence_error
    \/ resolve_judge
    \/ resolve_narrow
    \/ llm_attempt_fails
    \/ main_llm_abort

SpecAbort == AbortInit /\ [][AbortNext]_vars

\* C16: no LLM call is attempted more than max_retries times; when the last
\* attempt of a call has failed the run has exit code 1, run.json holds the
\* incremented error count and a finished_at, and every finding file is a
\* complete document
C16_LlmFailureAborts ==
    /\ llmTry <= MaxRetries
    /\ (abortCause = "" /\ AtLlmCall) => FailedHere < MaxRetries
    /\ llmTry = MaxRetries =>
          /\ abortCause = "llm"
          /\ pc = "aborted"
          /\ exitcode = 1
          /\ rpc = "exited"
          /\ runjson.exists
          /\ runjson.finished_at
          /\ runjson.errors = 1
          /\ \A f \in DOMAIN disk : IsComplete(disk[f])

C16_Witness ==
    /\ abortCause = "llm"
    /\ llmTry = MaxRetries
    /\ exitcode = 1
    /\ runjson.finished_at
    /\ \E f \in DOMAIN disk : disk[f].data.tasks_log # <<>>

(***************************************************************************)
(* CodexClient.exec (codex_dispatch.py): cache lookup, the command, the    *)
(* attempt loop with its child process and drainer threads, the cache      *)
(* write.                                                                  *)
(***************************************************************************)
\* self.retries of the client (the constructor's default is 0)
MaxCodexRetries == 1
\* exec calls made on one client
MaxCalls == 2

BypassFlag == "--dangerously-bypass-approvals-and-sandbox"

\* extra_flags of a call
FlagLists == {<<>>, <<BypassFlag>>}

\* a call: the prompt, the content hash of workdir (_hash_repo), extra_flags
Requests ==
    {[prompt |-> p, repo |-> r, flags |-> f] :
        p \in {"p"}, r \in {"r1", "r2"}, f \in FlagLists}

\* lines 120-129  the key: prompt, repo hash and self.version (one client,
\* one version)
CacheKey(req) == <<req.prompt, req.repo>>

CacheKeys == {CacheKey(req) : req \in Requests}

\* lines 156-166  base_cmd, then _wrap_no_network (the wrapper, when there is
\* one, goes in front)
BuildCmd(extra_flags) ==
    <<"codex", "exec", "--output-last-message", "out_file",
      "--skip-git-repo-check", "-C", "workdir">> \o extra_flags

NoResult ==
    [stdout |-> "", stderr |-> "", returncode |-> -1, duration_sec |-> 0,
     cmd |-> <<>>]

\* lines 245-254  CodexExecResult(stdout=last_msg, stderr=..., returncode=...,
\* duration_sec=..., cmd=cmd)
CodexExecResult(last_msg, stderr, returncode, duration, cmd) ==
    [stdout |-> last_msg, stderr |-> stderr, returncode |-> returncode,
     duration_sec |-> duration, cmd |-> cmd]

\* a cache file: absent, or the text json.dumps(result.__dict__) wrote, whole
\* or cut short
NoEntry == [exists |-> FALSE, whole |-> FALSE, text |-> NoResult]

\* line 266  json.dumps(result.__dict__): the five fields by name
Dumps(result) == [exists |-> TRUE, whole |-> TRUE, text |-> result]

\* line 147  cache_file.exists() and json.loads succeeds
Parses(entry) == entry.exists /\ entry.whole

\* a result rebuilt without its stderr
CachedResult_NoStderr(entry) == [entry.text EXCEPT !.stderr = ""]

\* lines 148-149  CodexExecResult(**json.loads(cache_file.read_text()))
CachedResult(entry) ==
    CodexExecResult(entry.text.stdout, entry.text.stderr,
                    entry.text.returncode, entry.text.duration_sec,
                    entry.text.cmd)

\* sigint: the interrupts exec received while this child was waited for
NoChild ==
    [state |-> "none", code |-> 0, msg |-> "", err |-> "", held |-> FALSE,
     sigint |-> 0]

NoOutput == [kind |-> "none", result |-> NoResult]

\* the caller: exec(prompt=..., workdir=..., extra_flags=...)
exec_call ==
    /\ dxpc \in {"idle", "returned", "raised"}
    /\ dxcalls < MaxCalls
    /\ \E req \in Requests :
         dxreq' = [req |-> req, hit |-> Parses(dxcache[CacheKey(req)])]
    /\ dxcalls' = dxcalls + 1
    /\ dxpc' = "lookup"
    /\ dxattempt' = 0
    /\ dxlaunched' = 0
    /\ dxchild' = NoChild
    /\ dxcmd' = <<>>
    /\ dxres' = NoOutput
    /\ UNCHANGED <<dxretries, dxcache, dxtmp, dxdone>>
    /\ UNCHANGED <<ioVars, orchVars, agVars, runVars, llmVars>>

\* lines 145-151  a cache file that parses is returned; anything else
\* (no file, text that does not parse) falls through
exec_lookup ==
    /\ dxpc = "lookup"
    /\ LET entry == dxcache[CacheKey(dxreq.req)]
       IN IF Parses(entry)
          THEN /\ dxres' = [kind |-> "result", result |-> CachedResult(entry)]
               /\ dxpc' = "returned"
          ELSE /\ dxpc' = "mkstemp"
               /\ UNCHANGED dxres
    /\ UNCHANGED <<dxreq, dxretries, dxcache, dxattempt, dxlaunched, dxchild,
                   dxcmd, dxtmp, dxcalls, dxdone>>
    /\ UNCHANGED <<ioVars, orchVars, agVars, runVars, llmVars>>

\* lines 153-170  the temp file for the last message, the command
exec_prepare ==
    /\ dxpc = "mkstemp"
    /\ dxtmp' = TRUE
    /\ dxcmd' = BuildCmd(dxreq.req.flags)
    /\ dxpc' = "launch"
    /\ UNCHANGED <<dxreq, dxretries, dxcache, dxattempt, dxlaunched, dxchild,
                   dxres, dxcalls, dxdone>>
    /\ UNCHANGED <<ioVars, orchVars, agVars, runVars, llmVars>>

\* lines 171-213  attempt += 1, Popen(cmd), the prompt on stdin, the two
\* drainer threads started
exec_launch ==
    /\ dxpc = "launch"
    /\ dxattempt' = dxattempt + 1
    /\ dxlaunched' = dxlaunched + 1
    /\ dxchild' = [NoChild EXCEPT !.state = "running"]
    /\ dxpc' = "wait"
    /\ UNCHANGED <<dxreq, dxretries, dxcache, dxcmd, dxtmp, dxres, dxcalls,
                   dxdone>>
    /\ UNCHANGED <<ioVars, orchVars, agVars, runVars, llmVars>>

\* what a child leaves in the last-message file and on stderr
ChildOutputs == {[msg |-> "m1", err |-> ""], [msg |-> "m2", err |-> "warn"]}

\* the child: it writes its last message and exits with some code; a process
\* it started may live on and keep its stdout and stderr open
child_exits ==
    /\ dxchild.state = "running"
    /\ \E code \in {0, 1}, out \in ChildOutputs, held \in BOOLEAN :
         dxchild' = [state |-> "exited", code |-> code, msg |-> out.msg,
                     err |-> out.err, held |-> held, sigint |-> dxchild.sigint]
    /\ dxtmp' = TRUE
    /\ UNCHANGED <<dxpc, dxreq, dxretries, dxcache, dxattempt, dxlaunched,
                   dxcmd, dxres, dxcalls, dxdone>>
    /\ UNCHANGED <<ioVars, orchVars, agVars, runVars, llmVars>>

\* the processes the child left behind exit and the pipes reach end of file
descendants_exit ==
    /\ dxchild.held
    /\ dxchild.state \in {"exited", "killed"}
    /\ dxchild' = [dxchild EXCEPT !.held = FALSE]
    /\ UNCHANGED <<dxpc, dxreq, dxretries, dxcache, dxattempt, dxlaunched,
                   dxcmd, dxtmp, dxres, dxcalls, dxdone>>
    /\ UNCHANGED <<ioVars, orchVars, agVars, runVars, llmVars>>

\* line 214  proc.wait(timeout=timeout) returns: the child has exited
exec_wait ==
    /\ dxpc = "wait"
    /\ dxchild.state = "exited"
    /\ dxpc' = "join"
    /\ UNCHANGED <<dxreq, dxretries, dxcache, dxattempt, dxlaunched, dxchild,
                   dxcmd, dxtmp, dxres, dxcalls, dxdone>>
    /\ UNCHANGED <<ioVars, orchVars, agVars, runVars, llmVars>>

\* lines 215-217  TimeoutExpired: proc.kill() reaches the child only, then
\* proc.wait()
exec_timeout ==
    /\ dxpc = "wait"
    /\ dxchild.state = "running"
    /\ \E held \in BOOLEAN :
         dxchild' = [dxchild EXCEPT !.state = "killed", !.code = -9,
                                    !.held = held]
    /\ dxpc' = "join_killed"
    /\ UNCHANGED <<dxreq, dxretries, dxcache, dxattempt, dxlaunched, dxcmd,
                   dxtmp, dxres, dxcalls, dxdone>>
    /\ UNCHANGED <<ioVars, orchVars, agVars, runVars, llmVars>>

\* th_out.join(), th_err.join(): the drainers end when every process holding
\* the write end of the pipes has closed it
PipesClosed == ~dxchild.held

\* lines 220 and 262  if attempt > self.retries
LastAttempt(attempt, retries) == attempt > retries

\* lines 218-223  both joins, then CodexTimeout or the backoff and the next
\* attempt
exec_timeout_join ==
    /\ dxpc = "join_killed"
    /\ PipesClosed
    /\ IF LastAttempt(dxattempt, dxretries)
       THEN /\ dxres' = [kind |-> "CodexTimeout", result |-> NoResult]
            /\ dxpc' = "raised"
       ELSE /\ dxpc' = "launch"
            /\ UNCHANGED dxres
    /\ UNCHANGED <<dxreq, dxretries, dxcache, dxattempt, dxlaunched, dxchild,
                   dxcmd, dxtmp, dxcalls, dxdone>>
    /\ UNCHANGED <<ioVars, orchVars, agVars, runVars, llmVars>>

\* lines 233-234  both joins after a wait that returned
exec_join ==
    /\ dxpc = "join"
    /\ PipesClosed
    /\ dxpc' = "collect"
    /\ UNCHANGED <<dxreq, dxretries, dxcache, dxattempt, dxlaunched, dxchild,
                   dxcmd, dxtmp, dxres, dxcalls, dxdone>>
    /\ UNCHANGED <<ioVars, orchVars, agVars, runVars, llmVars>>

\* lines 224-225  KeyboardInterrupt out of proc.wait(timeout=timeout):
\* proc.send_signal(signal.SIGINT), which reaches a child that still runs;
\* whether and when the child exits on it is the child's business
exec_interrupt ==
    /\ dxpc = "wait"
    /\ dxchild' = [dxchild EXCEPT !.sigint = 1]
    /\ dxpc' = "sigint"
    /\ UNCHANGED <<dxreq, dxretries, dxcache, dxattempt, dxlaunched, dxcmd,
                   dxtmp, dxres, dxcalls, dxdone>>
    /\ UNCHANGED <<ioVars, orchVars, agVars, runVars, llmVars>>

\* a handler that re-raises as soon as the signal is sent
InterruptDone_NoWait == TRUE

\* lines 226-228  proc.wait() returned and th_out.join(), th_err.join() too
InterruptDone == dxchild.state = "exited" /\ PipesClosed

\* lines 226-229  the wait, the joins, then raise: the interrupt leaves exec
exec_interrupt_join ==
    /\ dxpc = "sigint"
    /\ InterruptDone
    /\ dxres' = [kind |-> "KeyboardInterrupt", result |-> NoResult]
    /\ dxpc' = "raised"
    /\ UNCHANGED <<dxreq, dxretries, dxcache, dxattempt, dxlaunched, dxchild,
                   dxcmd, dxtmp, dxcalls, dxdone>>
    /\ UNCHANGED <<ioVars, orchVars, agVars, runVars, llmVars>>

\* lines 226-228  a further interrupt while the handler waits or joins is
\* caught by nothing and leaves exec as it is
exec_interrupt_again ==
    /\ dxpc = "sigint"
    /\ dxchild' = [dxchild EXCEPT !.sigint = 2]
    /\ dxres' = [kind |-> "KeyboardInterrupt", result |-> NoResult]
    /\ dxpc' = "raised"
    /\ UNCHANGED <<dxreq, dxretries, dxcache, dxattempt, dxlaunched, dxcmd,
                   dxtmp, dxcalls, dxdone>>
    /\ UNCHANGED <<ioVars, orchVars, agVars, runVars, llmVars>>

\* lines 244-269  the last message is read and its file unlinked, the result
\* is built; a non-zero code raises CodexError or goes round again; code 0
\* writes the cache file (write_text: whole, cut short, or not at all, every
\* error swallowed) and returns
exec_collect ==
    /\ dxpc = "collect"
    /\ dxtmp' = FALSE
    /\ \E duration \in {1, 2}, written \in {"whole", "cut", "none"} :
         LET result == CodexExecResult(dxchild.msg, dxchild.err, dxchild.code,
                                       duration, dxcmd)
             key == CacheKey(dxreq.req)
         IN IF dxchild.code # 0
            THEN /\ written = "none"
                 /\ duration = 1
                 /\ IF LastAttempt(dxattempt, dxretries)
                    THEN /\ dxres' = [kind |-> "CodexError", result |-> result]
                         /\ dxpc' = "raised"
                    ELSE /\ dxpc' = "launch"
                         /\ UNCHANGED dxres
                 /\ UNCHANGED <<dxcache, dxdone>>
            ELSE /\ dxres' = [kind |-> "result", result |-> result]
                 /\ dxpc' = "returned"
                 /\ dxdone' = [dxdone EXCEPT ![key] = result]
                 /\ dxcache' =
                      CASE written = "whole" ->
                             [dxcache EXCEPT ![key] = Dumps(result)]
                        [] written = "cut" ->
                             [dxcache EXCEPT ![key] =
                                 [Dumps(result) EXCEPT !.whole = FALSE]]
                        [] OTHER -> dxcache
    /\ UNCHANGED <<dxreq, dxretries, dxattempt, dxlaunched, dxchild, dxcmd,
                   dxcalls>>
    /\ UNCHANGED <<ioVars, orchVars, agVars, runVars, llmVars>>

(***************************************************************************)
(* SpecDispatch: up to MaxCalls exec calls, one after the other, on one    *)
(* client with an empty cache directory.  SpecDispatchLive adds what the   *)
(* scheduler guarantees: the dispatcher's own steps are taken, and the     *)
(* timeout fires; when the child or the processes it left exit is up to    *)
(* them.                                                                   *)
(***************************************************************************)
DispatchInit ==
    /\ dxpc = "idle"
    /\ dxreq = [req |-> [prompt |-> "p", repo |-> "r1", flags |-> <<>>],
                hit |-> FALSE]
    /\ dxretries \in 0..MaxCodexRetries
    /\ dxcache = [k \in CacheKeys |-> NoEntry]
    /\ dxattempt = 0
    /\ dxlaunched = 0
    /\ dxchild = NoChild
    /\ dxcmd = <<>>
    /\ dxtmp = FALSE
    /\ dxres = NoOutput
    /\ dxcalls = 0
    /\ dxdone = [k \in CacheKeys |-> NoResult]
    /\ IoIdle
    /\ OrchIdle
    /\ AgentIdle
    /\ RunIdle
    /\ LlmIdle

DispatchNext ==
    \/ exec_call
    \/ exec_lookup
    \/ exec_prepare
    \/ exec_launch
    \/ child_exits
    \/ descendants_exit
    \/ exec_wait
    \/ exec_timeout
    \/ exec_timeout_join
    \/ exec_join
    \/ exec_interrupt
    \/ exec_interrupt_join
    \/ exec_interrupt_again
    \/ exec_collect

SpecDispatch == DispatchInit /\ [][DispatchNext]_vars

SpecDispatchLive ==
    /\ DispatchInit
    /\ [][DispatchNext]_vars
    /\ WF_vars(exec_lookup)
    /\ WF_vars(exec_prepare)
    /\ WF_vars(exec_launch)
    /\ WF_vars(exec_wait)
    /\ WF_vars(exec_timeout)
    /\ WF_vars(exec_timeout_join)
    /\ WF_vars(exec_join)
    /\ WF_vars(exec_interrupt_join)
    /\ WF_vars(exec_collect)

\* C17: no command exec launches contains the flag that bypasses approvals
\* and the sandbox, whatever extra_flags the call was given
C17_NoBypassFlagLaunched ==
    dxlaunched > 0 => BypassFlag \notin Range(dxcmd)

\* C18: a call that finds a cache file that parses for its key launches no
\* process, and what it returns equals, field by field, the result the
\* earlier successful call for that key returned
C18_CacheHitReturnsStored ==
    (dxreq.hit /\ dxpc # "idle") =>
        /\ dxlaunched = 0
        /\ dxpc \in {"lookup", "returned"}
        /\ dxpc = "returned" =>
              /\ dxres.kind = "result"
              /\ dxres.result = dxdone[CacheKey(dxreq.req)]

C18_Witness ==
    /\ dxreq.hit
    /\ dxpc = "returned"
    /\ dxcalls = 2
    /\ dxlaunched = 0
    /\ dxres.result.stderr = "warn"
    /\ dxres.result.duration_sec = 2
    /\ dxreq.req.flags # <<>>

\* C19: every exec call ends, by returning or by raising, when each child
\* exits or is killed at its timeout
C19_ExecTerminates ==
    (dxpc = "lookup") ~> (dxpc \in {"returned", "raised"})

UnknownTop ==
    {c \in UNION {Range(topconds[f]) : f \in 1..NFindings} :
        conds[c].state = "unknown"}

\* C22: when the depth pass starts, the conditions it is going to run are
\* min(bfs_budget, number of unknown conditions) many: the budget is spent on
\* conditions that are still unknown after the breadth pass
C22_DepthTakesTopUnknown ==
    (pc = "depth" /\ di = 1) =>
        Cardinality({i \in DOMAIN order : order[i] \in UnknownTop})
            = Min(BfsBudget, Cardinality(UnknownTop))

\* C23: with plan diversity on, no task of the batch generate_tasks returned
\* has the condition's last_verb as its verb, and while fewer than three verbs
\* were used no task the planner proposed has a verb of used_verbs
C23_PlanAvoidsUsedVerbs ==
    (Resolving /\ Top.at = "exec" /\ PlanDiversity) =>
        \A i \in DOMAIN plan :
            /\ _verb(plan[i].original) # conds[Top.cond].last_verb
            /\ (Cardinality(conds[Top.cond].used_verbs) < 3
                   /\ plan[i] # SyntheticTask) =>
                  _verb(plan[i].original) \notin conds[Top.cond].used_verbs

(***************************************************************************)
(* SpecPlan: the steps of resolve_condition on one condition with the      *)
(* planner free to propose any short list of tasks.  Every agent call      *)
(* succeeds and the judge is left out: what is followed is generate_tasks  *)
(* and the verbs _execute_tasks records between two plans.                 *)
(***************************************************************************)
\* tasks in one reply of the planner
MaxPlanTasks == 3

TRead == <<"read", "f">>
TGrep == <<"grep", "k">>

\* the task objects of data["tasks"]: the schema allows mode "exec" only, the
\* reply is not validated against it
PlanItems ==
    {[mode |-> "exec", task |-> t] :
        t \in {TSearch, TSearchCap, TCallgraph, TRead, TGrep, TBlank}}
    \cup {[mode |-> "read", task |-> TCallgraph]}

PlanReplies == UNION {[1..n -> PlanItems] : n \in 0..MaxPlanTasks}

\* line 728  tasks = self.generate_tasks(condition, code_path); the IndexError
\* of _verb leaves resolve_condition
plan_generate ==
    /\ pc = "plan_run"
    /\ Top.at = "plan"
    /\ \E reply \in PlanReplies :
         IF generate_tasks_raises(reply)
         THEN /\ pc' = "plan_raised"
              /\ abortCause' = "plan"
              /\ UNCHANGED <<plan, workers, stack>>
         ELSE /\ plan' = generate_tasks(conds[Top.cond], reply)
              /\ workers' = [i \in DOMAIN plan' |-> "ok"]
              /\ stack' = SetTop([Top EXCEPT !.at = "exec"])
              /\ UNCHANGED <<pc, abortCause>>
    /\ UNCHANGED <<fi, ci, topconds, conds, finished, scored, order, di, faults>>
    /\ UNCHANGED <<ioVars, agVars, extVars>>

\* lines 732-734 and 722  _execute_tasks on the batch (an empty batch leaves
\* the loop), then the next step of the loop or its end
plan_execute ==
    /\ pc = "plan_run"
    /\ Top.at = "exec"
    /\ IF plan = <<>>
       THEN /\ pc' = "resolved"
            /\ UNCHANGED <<conds, disk, stack>>
       ELSE /\ conds' = [conds EXCEPT ![Top.cond] = CollectCondition(@, Pairs)]
            /\ disk' = atomic_write(Top.finding,
                                    CollectDoc(Top.finding, Top.cond, Pairs))
            /\ IF Top.step + 1 < Top.max_steps
               THEN /\ stack' = SetTop([Top EXCEPT !.step = @ + 1, !.at = "plan"])
                    /\ UNCHANGED pc
               ELSE /\ pc' = "resolved"
                    /\ UNCHANGED stack
    /\ plan' = <<>>
    /\ workers' = <<>>
    /\ UNCHANGED <<fi, ci, topconds, finished, scored, order, di, faults,
                   abortCause>>
    /\ UNCHANGED <<tmp, awpc, awpath, awdata, awpre, awfault, awraised>>
    /\ UNCHANGED <<agVars, extVars>>

PlanInit ==
    /\ disk = [f \in 1..NFindings |-> FileOf(EmptyDoc)]
    /\ tmp = Absent
    /\ awpc = "idle"
    /\ awpath = 1
    /\ awdata = EmptyDoc
    /\ awpre = Absent
    /\ awfault = ""
    /\ awraised = ""
    /\ pc = "plan_run"
    /\ fi = 1
    /\ ci = 1
    /\ conds = <<NewCondition>>
    /\ topconds = [f \in 1..NFindings |-> IF f = 1 THEN <<1>> ELSE <<>>]
    /\ stack = <<Frame(1, 1, 0, MaxSteps)>>
    /\ plan = <<>>
    /\ workers = <<>>
    /\ finished = <<>>
    /\ scored = <<>>
    /\ order = <<>>
    /\ di = 1
    /\ faults = 0
    /\ abortCause = ""
    /\ AgentIdle
    /\ ExtIdle

PlanNext ==
    \/ plan_generate
    \/ plan_execute

SpecPlan == PlanInit /\ [][PlanNext]_vars

C29_BadTaskDropped ==
    /\ pc # "plan_raised"
    /\ (pc = "plan_run" /\ Top.at = "exec") =>
          \A i \in DOMAIN plan :
              plan[i].mode = "exec" /\ plan[i].original # TBlank

\* C30: a batch handed to EXEC holds at most three tasks
C30_BatchAtMostThree ==
    (pc = "plan_run" /\ Top.at = "exec") => Len(plan) <= 3

(***************************************************************************)
(* SpecResolve: one call of resolve_condition with its default arguments   *)
(* on the only condition of a finding, sub-conditions and their recursive  *)
(* calls included; every agent call returns its observation.               *)
(***************************************************************************)
ResolveInit ==
    /\ disk = [f \in 1..NFindings |-> FileOf(EmptyDoc)]
    /\ tmp = Absent
    /\ awpc = "idle"
    /\ awpath = 1
    /\ awdata = EmptyDoc
    /\ awpre = Absent
    /\ awfault = ""
    /\ awraised = ""
    /\ pc = "resolve_run"
    /\ fi = 1
    /\ ci = 1
    /\ conds = <<NewCondition>>
    /\ topconds = [f \in 1..NFindings |-> IF f = 1 THEN <<1>> ELSE <<>>]
    /\ stack = <<Frame(1, 1, 0, MaxSteps)>>
    /\ plan = <<>>
    /\ workers = <<>>
    /\ finished = <<>>
    /\ scored = <<>>
    /\ order = <<>>
    /\ di = 1
    /\ faults = MaxFaults
    /\ abortCause = ""
    /\ AgentIdle
    /\ ExtIdle

ResolveNext ==
    \/ resolve_plan
    \/ execute_tasks_run
    \/ execute_tasks_collect
    \/ resolve_judge
    \/ resolve_narrow
    \/ resolve_sub
    \/ resolve_aggregate

SpecResolve == ResolveInit /\ [][ResolveNext]_vars

\* C25: resolve_condition is at NARROW only for a condition whose judge has
\* just answered unknown, and while one condition is judged or narrowed no
\* task batch of it is planned or running
C25_NarrowOnlyAfterUnknown ==
    Resolving =>
        /\ Top.at = "narrow" => conds[Top.cond].state = "unknown"
        /\ Top.at \in {"judge", "narrow", "subs"} =>
              plan = <<>> /\ workers = <<>>

\* a sub-condition is being narrowed, its judge having answered unknown
C25_Witness ==
    /\ Resolving
    /\ Len(stack) = 2
    /\ Top.at = "narrow"
    /\ conds[Top.cond].evidence # <<>>
    /\ conds[Top.cond].rationale = "r"

Cycles(f, c) ==
    Cardinality({k \in DOMAIN disk[f].data.tasks_log :
                    disk[f].data.tasks_log[k].condition = c})

\* C27: the step that follows the resolution of the last sub-condition of a
\* narrowing leaves the parent satisfied iff all of them are satisfied, failed
\* iff one of them is failed and none satisfied, and unknown otherwise
C27_ParentIsAggregate ==
    [][(Resolving /\ Top.at = "subs" /\ Top.si > Len(Top.subs)) =>
          LET S == {conds[Top.subs[i]].state : i \in DOMAIN Top.subs}
              parent == conds'[Top.cond].state
              allSat == \A st \in S : st = "satisfied"
              someFailed == "failed" \in S /\ "satisfied" \notin S
          IN /\ parent = "satisfied" <=> allSat
             /\ parent = "failed" <=> someFailed
             /\ parent = "unknown" <=> (~allSat /\ ~someFailed)]_vars

\* the parent was judged once, with the answer unknown, and is failed by its
\* two sub-conditions, of which one failed and one stayed unknown
C27_Witness ==
    /\ pc = "resolved"
    /\ Cycles(1, 1) = 1
    /\ conds[1].state = "failed"
    /\ conds[1].subconditions = <<2, 3>>
    /\ {conds[2].state, conds[3].state} = {"failed", "unknown"}

(***************************************************************************)
(* SpecPasses: process_findings with both passes, on runs in which every   *)
(* agent call returns its observation.                                     *)
(***************************************************************************)
PassesInit ==
    /\ disk = [f \in 1..NFindings |-> FileOf(EmptyDoc)]
    /\ tmp = Absent
    /\ awpc = "idle"
    /\ awpath = 1
    /\ awdata = EmptyDoc
    /\ awpre = Absent
    /\ awfault = ""
    /\ awraised = ""
    /\ pc = "open"
    /\ fi = 1
    /\ ci = 1
    /\ topconds = [f \in 1..NFindings |-> <<>>]
    /\ conds = <<>>
    /\ stack = <<>>
    /\ plan = <<>>
    /\ workers = <<>>
    /\ finished = <<>>
    /\ scored = <<>>
    /\ order = <<>>
    /\ di = 1
    /\ faults = MaxFaults
    /\ abortCause = ""
    /\ AgentIdle
    /\ ExtIdle

SpecPasses == PassesInit /\ [][Next]_vars

\* the cycles of its own that every top-level condition has had lie in lo..hi
TopCycles(lo, hi) ==
    \A f \in DOMAIN topconds : \A i \in DOMAIN topconds[f] :
        Cycles(f, topconds[f][i]) \in lo..hi

\* C28: while the breadth pass runs no top-level condition has had more than
\* one cycle of its own and the conditions it has passed have had exactly one;
\* when the depth pass starts every top-level condition of every finding has
\* had exactly one; from then on each has had at least one, and never more
\* than max_steps
C28_BreadthOnceThenDepth ==
    /\ TopCycles(0, MaxSteps)
    /\ pc \in {"open", "breadth", "breadth_run", "score"} =>
          /\ TopCycles(0, 1)
          /\ \A f \in DOMAIN topconds : \A i \in DOMAIN topconds[f] :
                (f < fi \/ (f = fi /\ i < ci)) => Cycles(f, topconds[f][i]) = 1
    /\ (pc = "depth" /\ di = 1) => TopCycles(1, 1)
    /\ pc \in {"depth", "depth_run", "final", "done"} => TopCycles(1, MaxSteps)

\* the run ended with one condition taken through the depth pass to its last
\* step and another left with its breadth cycle
C28_Witness ==
    /\ pc = "done"
    /\ \E f \in DOMAIN topconds : \E i, j \in DOMAIN topconds[f] :
          /\ Cycles(f, topconds[f][i]) = MaxSteps
          /\ Cycles(f, topconds[f][j]) = 1
          /\ conds[topconds[f][j]].state = "unknown"

(***************************************************************************)
(* SpecCache: the exec calls of SpecDispatch with a second process on the  *)
(* same cache directory.  The other process had a miss for a key, ran its  *)
(* child and writes the entry with cache_file.write_text, which opens the  *)
(* file for writing (the file exists, empty) and fills it before closing.  *)
(***************************************************************************)
PeerResult == CodexExecResult("m3", "", 0, 1, BuildCmd(<<>>))

\* line 266 in the other process: open(cache_file, "w") and the first bytes
peer_write_open ==
    /\ \E k \in CacheKeys :
         /\ dxcache[k] = NoEntry
         /\ dxcache' = [dxcache EXCEPT
                           ![k] = [Dumps(PeerResult) EXCEPT !.whole = FALSE]]
    /\ UNCHANGED <<dxpc, dxreq, dxretries, dxattempt, dxlaunched, dxchild,
                   dxcmd, dxtmp, dxres, dxcalls, dxdone>>
    /\ UNCHANGED <<ioVars, orchVars, agVars, runVars, llmVars>>

\* line 266 in the other process: the rest of the text, and the close
peer_write_close ==
    /\ \E k \in CacheKeys :
         /\ dxcache[k] = [Dumps(PeerResult) EXCEPT !.whole = FALSE]
         /\ dxcache' = [dxcache EXCEPT ![k] = Dumps(PeerResult)]
    /\ UNCHANGED <<dxpc, dxreq, dxretries, dxattempt, dxlaunched, dxchild,
                   dxcmd, dxtmp, dxres, dxcalls, dxdone>>
    /\ UNCHANGED <<ioVars, orchVars, agVars, runVars, llmVars>>

CacheNext ==
    \/ exec_call
    \/ exec_lookup
    \/ exec_prepare
    \/ exec_launch
    \/ child_exits
    \/ descendants_exit
    \/ exec_wait
    \/ exec_timeout
    \/ exec_timeout_join
    \/ exec_join
    \/ exec_interrupt
    \/ exec_interrupt_join
    \/ exec_interrupt_again
    \/ exec_collect
    \/ peer_write_open
    \/ peer_write_close

SpecCache == DispatchInit /\ [][CacheNext]_vars

\* C31: the cache file an exec call looks up is absent or holds a complete
\* entry
C31_LookupSeesWholeEntry ==
    dxpc = "lookup" =>
        LET entry == dxcache[CacheKey(dxreq.req)]
        IN entry.exists => entry.whole

(***************************************************************************)
(* save_cache (util/openai.py:42-64) called by MaxWriters processes on one *)
(* memo directory, writer i saving the response of key i.  write_text      *)
(* opens the file for writing, which leaves it empty, and fills it before  *)
(* the close; when two writers fill lock.json at once the one that closes  *)
(* last is taken to win.                                                   *)
(***************************************************************************)
\* a step of writer i that takes it from one position to the next
MemoStep(i, from, to, files, lock, local) ==
    /\ memo.w[i].pc = from
    /\ memo' = [files |-> files, lock |-> lock,
                w |-> [memo.w EXCEPT ![i] = [pc |-> to, lock |-> local]]]
    /\ UNCHANGED <<llmTry, llmSite>>
    /\ UNCHANGED <<ioVars, orchVars, agVars, runVars, dxVars>>

\* line 55  path.write_text(json.dumps(data)): the open
save_cache_memo_open ==
    \E i \in 1..MaxWriters :
        MemoStep(i, "call", "memo", [memo.files EXCEPT ![i] = "partial"],
                 memo.lock, memo.w[i].lock)

\* line 55  the text and the close
save_cache_memo_close ==
    \E i \in 1..MaxWriters :
        MemoStep(i, "memo", "read", [memo.files EXCEPT ![i] = "whole"],
                 memo.lock, memo.w[i].lock)

\* lines 59-62  json.loads(lock_path.read_text()), and {} on any exception:
\* no file, or a text that does not parse
ReadLock(lock) == IF lock.state = "whole" THEN lock.keys ELSE {}

save_cache_read_lock ==
    \E i \in 1..MaxWriters :
        MemoStep(i, "read", "write", memo.files, memo.lock, ReadLock(memo.lock))

\* lines 63-64  lock[key] = ..., lock_path.write_text(...): the open
save_cache_lock_open ==
    \E i \in 1..MaxWriters :
        MemoStep(i, "write", "fill", memo.files,
                 [state |-> "partial", keys |-> {}], memo.w[i].lock \cup {i})

\* line 64  the text and the close
save_cache_lock_close ==
    \E i \in 1..MaxWriters :
        MemoStep(i, "fill", "done", memo.files,
                 [state |-> "whole", keys |-> memo.w[i].lock], memo.w[i].lock)

MemoInit ==
    /\ llmTry = 0
    /\ llmSite = <<>>
    /\ memo = MemoDir("call")
    /\ IoIdle
    /\ OrchIdle
    /\ AgentIdle
    /\ RunIdle
    /\ DispatchIdle

MemoNext ==
    \/ save_cache_memo_open
    \/ save_cache_memo_close
    \/ save_cache_read_lock
    \/ save_cache_lock_open
    \/ save_cache_lock_close

SpecMemo == MemoInit /\ [][MemoNext]_vars

\* C32: a writer that reads lock.json never finds it partially written, and
\* when every save_cache call has returned lock.json is whole and maps every
\* saved key
C32_LockKeepsEveryKey ==
    /\ \A i \in 1..MaxWriters :
          memo.w[i].pc = "read" => memo.lock.state # "partial"
    /\ (\A i \in 1..MaxWriters : memo.w[i].pc = "done") =>
          /\ memo.lock.state = "whole"
          /\ memo.lock.keys = 1..MaxWriters

(***************************************************************************)
(* SpecJudge: one resolve_condition call in which the planner proposes     *)
(* nothing, so that a batch is the forced reachability task alone and one  *)
(* failing agent call makes every observation of the batch an error.       *)
(***************************************************************************)
\* the reply of the planner with no task
ShortReplies == { <<>> }

\* PLAN, line 728, on a short reply (no task text of it is blank, so _verb
\* does not raise)
resolve_plan_short ==
    /\ Resolving
    /\ Top.at = "plan"
    /\ \E reply \in ShortReplies :
         /\ plan' = generate_tasks(conds[Top.cond], reply)
         /\ workers' = [i \in DOMAIN plan' |-> "queued"]
         /\ stack' = SetTop([Top EXCEPT !.at = "exec"])
    /\ UNCHANGED <<pc, abortCause, di, fi, ci, topconds, conds, scored, order,
                   faults, finished>>
    /\ UNCHANGED ioVars
    /\ UNCHANGED agVars
    /\ UNCHANGED extVars

JudgeInit ==
    /\ disk = [f \in 1..NFindings |-> FileOf(EmptyDoc)]
    /\ tmp = Absent
    /\ awpc = "idle"
    /\ awpath = 1
    /\ awdata = EmptyDoc
    /\ awpre = Absent
    /\ awfault = ""
    /\ awraised = ""
    /\ pc = "resolve_run"
    /\ fi = 1
    /\ ci = 1
    /\ conds = <<NewCondition>>
    /\ topconds = [f \in 1..NFindings |-> IF f = 1 THEN <<1>> ELSE <<>>]
    /\ stack = <<Frame(1, 1, 0, MaxSteps)>>
    /\ plan = <<>>
    /\ workers = <<>>
    /\ finished = <<>>
    /\ scored = <<>>
    /\ order = <<>>
    /\ di = 1
    /\ faults = 0
    /\ abortCause = ""
    /\ AgentIdle
    /\ ExtIdle

JudgeNext ==
    \/ resolve_plan_short
    \/ execute_tasks_run
    \/ execute_tasks_collect
    \/ resolve_judge
    \/ resolve_narrow
    \/ resolve_sub
    \/ resolve_aggregate

SpecJudge == JudgeInit /\ [][JudgeNext]_vars

\* every observation of the evidence is an error observation (none at all
\* included)
OnlyErrors(ev_list) == \A i \in DOMAIN ev_list : StartsWithError(ev_list[i].summary)

\* C33: a condition whose evidence holds only error observations, or nothing,
\* is unknown after the JUDGE step (a condition without sub-conditions gets
\* its state from the JUDGE step alone)
C33_ErrorsJudgedUnknown ==
    \A c \in DOMAIN conds :
        (conds[c].subconditions = <<>> /\ OnlyErrors(conds[c].evidence)) =>
            conds[c].state = "unknown"

\* t is s with entries appended at the end, or s itself
Extends(s, t) == Len(s) <= Len(t) /\ SubSeq(t, 1, Len(s)) = s

\* the Condition objects that exist before and after a step
Kept == DOMAIN conds \cap DOMAIN conds'

\* C34: every step leaves the evidence of every condition and the tasks_log of
\* every finding file as it was or with entries appended at the end, and a
\* step of JUDGE or NARROW leaves both as they were
C34_EvidenceAndLogAppendOnly ==
    [][/\ \A c \in Kept : Extends(conds[c].evidence, conds'[c].evidence)
       /\ \A f \in 1..NFindings :
             Extends(disk[f].data.tasks_log, disk'[f].data.tasks_log)
       /\ (Resolving /\ Top.at \in {"judge", "narrow"}) =>
             /\ \A c \in Kept : conds'[c].evidence = conds[c].evidence
             /\ \A f \in 1..NFindings :
                   disk'[f].data.tasks_log = disk[f].data.tasks_log]_vars

\* after batches of two conditions and a verdict of the judge: evidence and
\* tasks_log have been appended to when they were not empty
C34_Witness ==
    /\ \E c \in DOMAIN conds :
          /\ Len(conds[c].evidence) > 2
          /\ conds[c].state \in {"satisfied", "failed"}
    /\ \E f \in 1..NFindings :
          LET log == disk[f].data.tasks_log
          IN Len(log) > 1 /\ log[1].condition # log[Len(log)].condition

\* the verbs of the tasks of a tasks_log entry
LoggedVerbs(entry) == {_verb(entry.executed[i].original) : i \in DOMAIN entry.executed}

\* C35: after a batch, last_verb of its condition is the verb of the task that
\* is last in the input_sha1 order (the last of the entry appended to
\* tasks_log), and used_verbs holds the verbs of the batch
C35_LastVerbOfSortedBatch ==
    \A f \in 1..NFindings :
        LET log == disk[f].data.tasks_log
        IN log # <<>> =>
             LET entry == log[Len(log)]
                 last == entry.executed[Len(entry.executed)]
             IN /\ conds[entry.condition].last_verb = _verb(last.original)
                /\ LoggedVerbs(entry) \subseteq conds[entry.condition].used_verbs

\* C36: a condition that is satisfied or failed is left as it is by every
\* later step (state, evidence, verbs, sub-conditions), and no call of
\* resolve_condition is running or started on it
C36_TerminalIsAbsorbing ==
    [][\A c \in Kept :
          conds[c].state \in {"satisfied", "failed"} =>
              /\ conds'[c] = conds[c]
              /\ \A i \in DOMAIN stack' : stack'[i].cond # c]_vars

\* the depth pass is at a condition of its list that the breadth pass left
\* satisfied or failed
C36_Witness ==
    /\ pc = "depth"
    /\ di <= Len(order)
    /\ conds[order[di]].state \in {"satisfied", "failed"}

\* C37: when the aggregation step sets a condition satisfied, every condition
\* of its subconditions list is satisfied; when it sets it failed, none of
\* them is satisfied
C37_AggregateOverAllSubs ==
    [][(Resolving /\ Top.at = "subs" /\ Top.si > Len(Top.subs)
            /\ Top.cond \in DOMAIN conds') =>
          LET all == conds[Top.cond].subconditions
              states == {conds[all[i]].state : i \in DOMAIN all}
          IN /\ conds'[Top.cond].state = "satisfied" => states = {"satisfied"}
             /\ conds'[Top.cond].state = "failed" => "satisfied" \notin states]_vars

\* C38: the tasks of a plan generate_tasks returned have pairwise distinct
\* verbs, the forced callgraph task included
C38_PlanVerbsDistinct ==
    (pc = "plan_run" /\ Top.at = "exec") =>
        \A i, j \in DOMAIN plan :
            i # j => _verb(plan[i].original) # _verb(plan[j].original)

\* a plan of three tasks of the planner and the forced task, on a condition
\* that has verbs from an earlier batch
C38_Witness ==
    /\ pc = "plan_run"
    /\ Top.at = "exec"
    /\ Len(plan) = 4
    /\ plan[4] = SyntheticTask
    /\ conds[Top.cond].used_verbs # {}

\* C39: when exec has returned or raised, the codex_last_ file of the call
\* does not exist
C39_NoTempFileLeft == dxpc \in {"returned", "raised"} => ~dxtmp

\* the paths of AgentPaths that name something outside the repository root
EscapesRoot(p) == p \in {"../q.py", "/etc/q.py"}

====
